---------------------------- MODULE Spec2Model ----------------------------
(***************************************************************************)
(* Model of the LLM response reconciler of backend/app/services/llm.py:    *)
(* _strip_to_json, _repair_json, json.loads, _safe_parse_document_result   *)
(* and the reconciliation path of analyze_contract, and of the handlers    *)
(* of backend/app/routes and backend/app/deps over the database.           *)
(*                                                                         *)
(* A text is a sequence of characters; a character is a string of length   *)
(* one.  The back-quote cannot be written inside a TLA+ string, so the     *)
(* character U+0060 is written BQ.                                         *)
(***************************************************************************)
EXTENDS Integers, Sequences, FiniteSets, TLC

VARIABLES
    pc,         \* position of the running call
    raw,        \* the text handed to the call (raw_text / text / json_text)
    stripped,   \* analyze_contract: json_text after _strip_to_json
    repaired,   \* analyze_contract: json_text after _repair_json
    data,       \* analyze_contract: the decoded value / the argument of _safe_parse_document_result
    arg,        \* the decoded object handed to a direct call of _safe_parse_document_result
    nlp_info,   \* analyze_contract: the hints of the request
    decoded_by, \* analyze_contract: which assignment gave data its value
    out,        \* return value of a direct call of _repair_json
    out2,       \* return value of _repair_json applied to out
    result,     \* the DocumentResult returned, or the exception raised
    response,   \* _stream_llm_text: the chunks the streaming call delivers, in arrival order
    pos,        \* _stream_llm_text: index of the chunk the for loop is at (0: no stream)
    chunks,     \* _stream_llm_text: the list the texts are appended to
    cache,      \* contract_cache: cache key -> the DocumentResult set under it
    prompts,    \* number of prompts built by analyze_contract
    llm_calls,  \* number of calls of _stream_llm_text made by analyze_contract
    calls,      \* number of calls of analyze_contract made
    last_call,  \* the last call of analyze_contract: its arguments and its outcome
    first_result, \* (text, language) -> the result analyze_contract first returned for it
    made_for,   \* cache key -> the output_language of the call that set the value under it
    db,         \* the database: table name -> the set of its committed rows
    seq,        \* the last id given out per table, the requests started, the tokens drawn
    reqs,       \* the requests in flight: what each handler has read or written so far
    http        \* the last response sent: its request, status and body

callVars == <<pc, raw, arg, nlp_info, stripped, repaired, data, decoded_by, out, out2, result>>
streamVars == <<response, pos, chunks>>
cacheVars == <<cache, prompts, llm_calls, calls, last_call, first_result, made_for>>
dbVars == <<db, seq, reqs, http>>
vars == <<callVars, streamVars, cacheVars, dbVars>>

(***************************************************************************)
(* Characters and Python string methods                                    *)
(***************************************************************************)
BQ == "BQ"
DQ == "\""
NL == "\n"
SP == " "

\* str.strip() and the JSON scanner agree on these four characters; the
\* further characters str.strip() removes (\x0b, \x0c, \x1c-\x1f, ...) are
\* not part of any text of the model.
IsWs(c) == c \in {SP, NL, "\t", "\r"}

RECURSIVE LStripFrom(_, _)
LStripFrom(s, i) ==
    IF i > Len(s) THEN <<>>
    ELSE IF IsWs(s[i]) THEN LStripFrom(s, i + 1)
    ELSE SubSeq(s, i, Len(s))

\* str.lstrip()
LStrip(s) == LStripFrom(s, 1)

RECURSIVE RStripTo(_, _)
RStripTo(s, j) ==
    IF j < 1 THEN <<>>
    ELSE IF IsWs(s[j]) THEN RStripTo(s, j - 1)
    ELSE SubSeq(s, 1, j)

\* str.rstrip()
RStrip(s) == RStripTo(s, Len(s))

\* str.strip()
Strip(s) == RStrip(LStrip(s))

RECURSIVE LStripCharFrom(_, _, _)
LStripCharFrom(s, c, i) ==
    IF i > Len(s) THEN <<>>
    ELSE IF s[i] = c THEN LStripCharFrom(s, c, i + 1)
    ELSE SubSeq(s, i, Len(s))

\* str.lstrip(c) for a single character c
LStripChar(s, c) == LStripCharFrom(s, c, 1)

\* s[i:i+len(p)] == p, i a Python (0-based) index
MatchAt(s, p, i) ==
    /\ i + Len(p) <= Len(s)
    /\ \A k \in 1..Len(p) : s[i + k] = p[k]

\* str.startswith / str.endswith
StartsWith(s, p) == MatchAt(s, p, 0)
EndsWith(s, p) == Len(p) <= Len(s) /\ MatchAt(s, p, Len(s) - Len(p))

RECURSIVE FindFrom(_, _, _)
FindFrom(s, c, i) ==
    IF i > Len(s) THEN -1
    ELSE IF s[i] = c THEN i - 1
    ELSE FindFrom(s, c, i + 1)

\* str.find(c): the 0-based index of the first c, or -1
Find(s, c) == FindFrom(s, c, 1)

RECURSIVE RFindFrom(_, _, _)
RFindFrom(s, c, i) ==
    IF i < 1 THEN -1
    ELSE IF s[i] = c THEN i - 1
    ELSE RFindFrom(s, c, i - 1)

\* str.rfind(c): the 0-based index of the last c, or -1
RFind(s, c) == RFindFrom(s, c, Len(s))

\* str.count(c)
Count(s, c) == Cardinality({i \in 1..Len(s) : s[i] = c})

RECURSIVE ReplaceFrom(_, _, _, _)
ReplaceFrom(s, p, r, i) ==
    IF i >= Len(s) THEN <<>>
    ELSE IF MatchAt(s, p, i) THEN r \o ReplaceFrom(s, p, r, i + Len(p))
    ELSE <<s[i + 1]>> \o ReplaceFrom(s, p, r, i + 1)

\* str.replace(p, r) for a non-empty p: leftmost, non-overlapping occurrences
Replace(s, p, r) == ReplaceFrom(s, p, r, 0)

\* "}" * n
RECURSIVE Braces(_)
Braces(n) == IF n <= 0 THEN <<>> ELSE <<"}">> \o Braces(n - 1)

UpperCase ==
    <<"A", "B", "C", "D", "E", "F", "G", "H", "I", "J", "K", "L", "M",
      "N", "O", "P", "Q", "R", "S", "T", "U", "V", "W", "X", "Y", "Z">>
LowerCase ==
    <<"a", "b", "c", "d", "e", "f", "g", "h", "i", "j", "k", "l", "m",
      "n", "o", "p", "q", "r", "s", "t", "u", "v", "w", "x", "y", "z">>

\* str.lower() on one character: the texts of the model hold no upper-case
\* letter outside ASCII
LowerChar(c) ==
    IF \E k \in 1..Len(UpperCase) : UpperCase[k] = c
    THEN LowerCase[CHOOSE k \in 1..Len(UpperCase) : UpperCase[k] = c]
    ELSE c

\* str.lower()
Lower(s) == [k \in 1..Len(s) |-> LowerChar(s[k])]

(***************************************************************************)
(* Decoded JSON values (Python objects): None, bool, int, str, list, dict. *)
(* A dict is a function from its keys (texts) to values.                   *)
(***************************************************************************)
JNull == [t |-> "null"]
JBool(b) == [t |-> "bool", b |-> b]
JNum(n) == [t |-> "num", n |-> n]
JStr(s) == [t |-> "str", s |-> s]
JArr(a) == [t |-> "arr", a |-> a]
JObj(m) == [t |-> "obj", m |-> m]

EmptyDict == JObj(<<>>)
EmptyList == JArr(<<>>)

(***************************************************************************)
(* json.loads: the scanner of the standard library (strict mode).  Texts   *)
(* of the model hold no ".", "e" or "E" after a digit, no backslash and no  *)
(* NaN / Infinity: numbers are integers and strings have no escapes.       *)
(***************************************************************************)
ParseFail == [ok |-> FALSE, pos |-> 0, val |-> JNull]
ParseOk(v, p) == [ok |-> TRUE, pos |-> p, val |-> v]

IsDigit(c) == c \in {"0", "1", "2", "3", "4", "5", "6", "7", "8", "9"}
DigitVal(c) ==
    CASE c = "0" -> 0 [] c = "1" -> 1 [] c = "2" -> 2 [] c = "3" -> 3
      [] c = "4" -> 4 [] c = "5" -> 5 [] c = "6" -> 6 [] c = "7" -> 7
      [] c = "8" -> 8 [] OTHER -> 9

\* the index of the first character at or after i (1-based) that is not whitespace
RECURSIVE SkipWs(_, _)
SkipWs(s, i) ==
    IF i <= Len(s) /\ IsWs(s[i]) THEN SkipWs(s, i + 1) ELSE i

\* py_scanstring: i is the index after the opening quote, acc the characters read;
\* a control character inside a string is an error (strict)
RECURSIVE ScanString(_, _, _)
ScanString(s, i, acc) ==
    IF i > Len(s) THEN ParseFail
    ELSE IF s[i] = DQ THEN ParseOk(JStr(acc), i + 1)
    ELSE IF s[i] \in {NL, "\t", "\r"} THEN ParseFail
    ELSE ScanString(s, i + 1, Append(acc, s[i]))

\* the digits of an integer: i the index of the next character, n the value so far
RECURSIVE ScanDigits(_, _, _)
ScanDigits(s, i, n) ==
    IF i <= Len(s) /\ IsDigit(s[i])
    THEN ScanDigits(s, i + 1, 10 * n + DigitVal(s[i]))
    ELSE ParseOk(JNum(n), i)

\* NUMBER_RE: -?(0|[1-9]\d*)
ScanNumber(s, i) ==
    LET neg == s[i] = "-"
        j == IF neg THEN i + 1 ELSE i
    IN  IF j > Len(s) \/ ~IsDigit(s[j]) THEN ParseFail
        ELSE LET r == IF s[j] = "0" THEN ParseOk(JNum(0), j + 1)
                      ELSE ScanDigits(s, j, 0)
             IN  IF neg THEN ParseOk(JNum(0 - r.val.n), r.pos) ELSE r

LitNull == <<"n", "u", "l", "l">>
LitTrue == <<"t", "r", "u", "e">>
LitFalse == <<"f", "a", "l", "s", "e">>

RECURSIVE ScanValue(_, _)
RECURSIVE ScanMembers(_, _, _)
RECURSIVE ScanItems(_, _, _)

\* JSONObject after a key is due: i is the index of the opening quote of the key
ScanMembers(s, i, m) ==
    IF i > Len(s) \/ s[i] # DQ THEN ParseFail
    ELSE LET k == ScanString(s, i + 1, <<>>)
         IN  IF ~k.ok THEN ParseFail
             ELSE LET c == SkipWs(s, k.pos)
                  IN  IF c > Len(s) \/ s[c] # ":" THEN ParseFail
                      ELSE LET v == ScanValue(s, SkipWs(s, c + 1))
                           IN  IF ~v.ok THEN ParseFail
                               ELSE LET e == SkipWs(s, v.pos)
                                        m2 == (k.val.s :> v.val) @@ m
                                    IN  IF e > Len(s) THEN ParseFail
                                        ELSE IF s[e] = "}" THEN ParseOk(JObj(m2), e + 1)
                                        ELSE IF s[e] = "," THEN ScanMembers(s, SkipWs(s, e + 1), m2)
                                        ELSE ParseFail

\* JSONArray after a value is due: i is the index where the value starts
ScanItems(s, i, a) ==
    LET v == ScanValue(s, i)
    IN  IF ~v.ok THEN ParseFail
        ELSE LET e == SkipWs(s, v.pos)
                 a2 == Append(a, v.val)
             IN  IF e > Len(s) THEN ParseFail
                 ELSE IF s[e] = "]" THEN ParseOk(JArr(a2), e + 1)
                 ELSE IF s[e] = "," THEN ScanItems(s, SkipWs(s, e + 1), a2)
                 ELSE ParseFail

\* scan_once: the value that starts at index i (1-based)
ScanValue(s, i) ==
    IF i > Len(s) THEN ParseFail
    ELSE IF s[i] = DQ THEN ScanString(s, i + 1, <<>>)
    ELSE IF s[i] = "{"
         THEN LET j == SkipWs(s, i + 1)
              IN  IF j <= Len(s) /\ s[j] = "}" THEN ParseOk(EmptyDict, j + 1)
                  ELSE ScanMembers(s, j, <<>>)
    ELSE IF s[i] = "["
         THEN LET j == SkipWs(s, i + 1)
              IN  IF j <= Len(s) /\ s[j] = "]" THEN ParseOk(EmptyList, j + 1)
                  ELSE ScanItems(s, j, <<>>)
    ELSE IF MatchAt(s, LitNull, i - 1) THEN ParseOk(JNull, i + 4)
    ELSE IF MatchAt(s, LitTrue, i - 1) THEN ParseOk(JBool(TRUE), i + 4)
    ELSE IF MatchAt(s, LitFalse, i - 1) THEN ParseOk(JBool(FALSE), i + 5)
    ELSE IF s[i] = "-" \/ IsDigit(s[i]) THEN ScanNumber(s, i)
    ELSE ParseFail

\* json.loads(s): ok is FALSE where json.loads raises JSONDecodeError
JsonLoads(s) ==
    LET v == ScanValue(s, SkipWs(s, 1))
    IN  IF v.ok /\ SkipWs(s, v.pos) > Len(s) THEN [ok |-> TRUE, val |-> v.val]
        ELSE [ok |-> FALSE, val |-> JNull]

\* json.loads(s) does not raise
Parses(s) == JsonLoads(s).ok

(***************************************************************************)
(* _strip_to_json                                                          *)
(***************************************************************************)
Fence == <<BQ, BQ, BQ>>
JsonTag == <<"j", "s", "o", "n">>

\* llm.py 82-85: the opening fence and the language tag
StripOpeningFence(t) ==
    IF StartsWith(t, Fence)
    THEN LET u == LStrip(LStripChar(t, BQ))
         IN  IF StartsWith(Lower(u), JsonTag)
             THEN LStrip(SubSeq(u, 5, Len(u)))
             ELSE u
    ELSE t

\* a closing fence that is left in place
KeepClosingFence(t) == t

\* llm.py 86-87: the closing fence
StripClosingFence(t) ==
    IF EndsWith(t, Fence) THEN SubSeq(t, 1, Len(t) - 3) ELSE t

\* a text that keeps what precedes its first "{"
KeepLeadingText(t) == t

\* llm.py 89-91: everything before the first "{" is dropped
CutToFirstBrace(t) ==
    LET first == Find(t, "{")
    IN  IF first # -1 THEN SubSeq(t, first + 1, Len(t)) ELSE t

StripToJson(text) ==
    IF text = <<>> THEN <<>>
    ELSE Strip(CutToFirstBrace(StripClosingFence(StripOpeningFence(Strip(text)))))

(***************************************************************************)
(* _repair_json                                                            *)
(***************************************************************************)
\* range(3)
MaxPasses == 3

\* llm.py 120-124: one pass of the three replacements
StripCommas(s) ==
    Replace(Replace(Replace(s, <<",", SP, "}">>, <<"}">>),
                    <<",", SP, "]">>, <<"]">>),
            <<",", NL, "}">>, <<"}">>)

\* a comma loop of a single pass
CommaLoopOnePass(s, n, passes) ==
    LET replaced == StripCommas(s)
    IN  IF n = 0 THEN [found |-> FALSE, s |-> s, passes |-> passes]
        ELSE IF replaced = s THEN [found |-> FALSE, s |-> s, passes |-> passes + 1]
        ELSE [found |-> Parses(replaced), s |-> replaced, passes |-> passes + 1]

\* a comma loop that adopts the first pass that changes the text, without
\* testing that it parses
CommaLoopUnchecked(s, n, passes) ==
    LET replaced == StripCommas(s)
    IN  [found |-> replaced # s, s |-> replaced, passes |-> passes + 1]

\* llm.py 119-133: the loop with n passes left, after `passes` passes;
\* found is TRUE when a pass produced a text that parses
RECURSIVE CommaLoop(_, _, _)
CommaLoop(s, n, passes) ==
    IF n = 0 THEN [found |-> FALSE, s |-> s, passes |-> passes]
    ELSE LET replaced == StripCommas(s)
         IN  IF replaced = s THEN [found |-> FALSE, s |-> s, passes |-> passes + 1]
             ELSE IF Parses(replaced)
                  THEN [found |-> TRUE, s |-> replaced, passes |-> passes + 1]
                  ELSE CommaLoop(replaced, n - 1, passes + 1)

\* a function that never cuts the text
TruncateSkipped(s) == [found |-> FALSE, s |-> s]

\* a cut after the first "}" in place of the last
TruncateAtFirstBrace(s) ==
    LET first == Find(s, "}")
        candidate == SubSeq(s, 1, first + 1)
    IN  IF first = -1 THEN [found |-> FALSE, s |-> s]
        ELSE [found |-> Parses(candidate), s |-> candidate]

\* llm.py 110-117: the text up to the last "}"; found when it parses.  When it
\* does not parse the function goes on with the cut text (s = candidate).
TruncateAtLastBrace(s) ==
    LET last == RFind(s, "}")
        candidate == SubSeq(s, 1, last + 1)
    IN  IF last = -1 THEN [found |-> FALSE, s |-> s]
        ELSE [found |-> Parses(candidate), s |-> candidate]

\* a padding that closes an open array before the braces
BalanceArrayToo(s) ==
    LET opens == Count(s, "{")
        closes == Count(s, "}")
        arrays == IF Count(s, "[") > Count(s, "]") THEN <<"]">> ELSE <<>>
        padded == s \o arrays \o Braces(opens - closes)
    IN  IF opens > closes
        THEN [found |-> Parses(padded), s |-> padded, appended |-> opens - closes]
        ELSE [found |-> FALSE, s |-> s, appended |-> 0]

\* a padding of one "}" whatever the deficit
BalanceOneBrace(s) ==
    LET padded == s \o <<"}">>
    IN  IF Count(s, "{") > Count(s, "}")
        THEN [found |-> Parses(padded), s |-> padded, appended |-> 1]
        ELSE [found |-> FALSE, s |-> s, appended |-> 0]

\* llm.py 135-143: the missing closing braces; found when the padded text parses
BalanceBraces(s) ==
    LET opens == Count(s, "{")
        closes == Count(s, "}")
        padded == s \o Braces(opens - closes)
    IN  IF opens > closes
        THEN [found |-> Parses(padded), s |-> padded, appended |-> opens - closes]
        ELSE [found |-> FALSE, s |-> s, appended |-> 0]

\* a failed repair that returns the text worked on
FailedReturnWorking(json_text, s) == s

\* llm.py 145: every heuristic failed; s is the text worked on
FailedReturn(json_text, s) == json_text

\* a first step that never succeeds
NeverAsIs(s) == FALSE

\* llm.py 104-108: the stripped text parses as it is
ParsesAsIs(s) == Parses(s)

\* llm.py 98-145.  ret is the value returned; step names the return statement
\* taken; passes counts the iterations of the comma loop that were entered;
\* appended is the number of "}" added at line 138.
RepairJsonRun(json_text) ==
    IF json_text = <<>>
    THEN [ret |-> json_text, step |-> "empty", passes |-> 0, appended |-> 0]
    ELSE
    LET s0 == Strip(json_text)
        cut == TruncateAtLastBrace(s0)
        loop == CommaLoop(cut.s, MaxPasses, 0)
        bal == BalanceBraces(loop.s)
    IN  IF ParsesAsIs(s0)
        THEN [ret |-> s0, step |-> "asis", passes |-> 0, appended |-> 0]
        ELSE IF cut.found
        THEN [ret |-> cut.s, step |-> "truncate", passes |-> 0, appended |-> 0]
        ELSE IF loop.found
        THEN [ret |-> loop.s, step |-> "commas", passes |-> loop.passes, appended |-> 0]
        ELSE IF bal.found
        THEN [ret |-> bal.s, step |-> "braces", passes |-> loop.passes,
              appended |-> bal.appended]
        ELSE [ret |-> FailedReturn(json_text, bal.s), step |-> "failed",
              passes |-> loop.passes, appended |-> bal.appended]

RepairJson(json_text) == RepairJsonRun(json_text).ret

(***************************************************************************)
(* _safe_parse_document_result                                             *)
(*                                                                         *)
(* A character outside ASCII is written by its code point: the risk level  *)
(* U+C911 U+AC04 is the Korean word for "medium", U+B0AE U+C74C "low",     *)
(* U+B192 U+C74C "high", U+CE58 U+BA85 U+C801 "critical".                  *)
(***************************************************************************)
\* the field names read from the decoded object
K ==
    [document_id |-> <<"d", "o", "c", "u", "m", "e", "n", "t", "_", "i", "d">>,
     meta |-> <<"m", "e", "t", "a">>,
     language |-> <<"l", "a", "n", "g", "u", "a", "g", "e">>,
     domain_tags |-> <<"d", "o", "m", "a", "i", "n", "_", "t", "a", "g", "s">>,
     parties |-> <<"p", "a", "r", "t", "i", "e", "s">>,
     governing_law |-> <<"g", "o", "v", "e", "r", "n", "i", "n", "g", "_", "l", "a", "w">>,
     summary |-> <<"s", "u", "m", "m", "a", "r", "y">>,
     title |-> <<"t", "i", "t", "l", "e">>,
     overall_summary |-> <<"o", "v", "e", "r", "a", "l", "l", "_", "s", "u", "m", "m", "a", "r", "y">>,
     one_line_summary |-> <<"o", "n", "e", "_", "l", "i", "n", "e", "_", "s", "u", "m", "m", "a", "r", "y">>,
     key_points |-> <<"k", "e", "y", "_", "p", "o", "i", "n", "t", "s">>,
     main_risks |-> <<"m", "a", "i", "n", "_", "r", "i", "s", "k", "s">>,
     main_protections |-> <<"m", "a", "i", "n", "_", "p", "r", "o", "t", "e", "c", "t", "i", "o", "n", "s">>,
     recommended_actions |-> <<"r", "e", "c", "o", "m", "m", "e", "n", "d", "e", "d", "_", "a", "c", "t", "i", "o", "n", "s">>,
     risk_profile |-> <<"r", "i", "s", "k", "_", "p", "r", "o", "f", "i", "l", "e">>,
     overall_risk_level |-> <<"o", "v", "e", "r", "a", "l", "l", "_", "r", "i", "s", "k", "_", "l", "e", "v", "e", "l">>,
     overall_risk_score |-> <<"o", "v", "e", "r", "a", "l", "l", "_", "r", "i", "s", "k", "_", "s", "c", "o", "r", "e">>,
     risk_dimensions |-> <<"r", "i", "s", "k", "_", "d", "i", "m", "e", "n", "s", "i", "o", "n", "s">>,
     comments |-> <<"c", "o", "m", "m", "e", "n", "t", "s">>,
     clauses |-> <<"c", "l", "a", "u", "s", "e", "s">>,
     clause_id |-> <<"c", "l", "a", "u", "s", "e", "_", "i", "d">>,
     raw_text |-> <<"r", "a", "w", "_", "t", "e", "x", "t">>,
     risk_level |-> <<"r", "i", "s", "k", "_", "l", "e", "v", "e", "l">>,
     risk_score |-> <<"r", "i", "s", "k", "_", "s", "c", "o", "r", "e">>,
     risk_factors |-> <<"r", "i", "s", "k", "_", "f", "a", "c", "t", "o", "r", "s">>,
     protections |-> <<"p", "r", "o", "t", "e", "c", "t", "i", "o", "n", "s">>,
     red_flags |-> <<"r", "e", "d", "_", "f", "l", "a", "g", "s">>,
     action_guides |-> <<"a", "c", "t", "i", "o", "n", "_", "g", "u", "i", "d", "e", "s">>,
     tags |-> <<"t", "a", "g", "s">>,
     domain |-> <<"d", "o", "m", "a", "i", "n">>,
     risk |-> <<"r", "i", "s", "k">>,
     causal_graph |-> <<"c", "a", "u", "s", "a", "l", "_", "g", "r", "a", "p", "h">>,
     from_clause_id |-> <<"f", "r", "o", "m", "_", "c", "l", "a", "u", "s", "e", "_", "i", "d">>,
     to_clause_id |-> <<"t", "o", "_", "c", "l", "a", "u", "s", "e", "_", "i", "d">>,
     relationship |-> <<"r", "e", "l", "a", "t", "i", "o", "n", "s", "h", "i", "p">>,
     description |-> <<"d", "e", "s", "c", "r", "i", "p", "t", "i", "o", "n">>,
     terms |-> <<"t", "e", "r", "m", "s">>,
     term |-> <<"t", "e", "r", "m">>,
     korean |-> <<"k", "o", "r", "e", "a", "n">>,
     english |-> <<"e", "n", "g", "l", "i", "s", "h">>,
     source |-> <<"s", "o", "u", "r", "c", "e">>]

\* the four canonical risk levels
LevelLow == <<"U+B0AE", "U+C74C">>
LevelMedium == <<"U+C911", "U+AC04">>
LevelHigh == <<"U+B192", "U+C74C">>
LevelCritical == <<"U+CE58", "U+BA85", "U+C801">>

RISK_LEVEL_MAP ==
    (<<"l", "o", "w">> :> LevelLow) @@ (<<"m", "e", "d", "i", "u", "m">> :> LevelMedium)
    @@ (<<"m", "o", "d", "e", "r", "a", "t", "e">> :> LevelMedium) @@ (<<"h", "i", "g", "h">> :> LevelHigh)
    @@ (<<"c", "r", "i", "t", "i", "c", "a", "l">> :> LevelCritical) @@ (<<"s", "e", "v", "e", "r", "e">> :> LevelCritical)
    @@ (<<"t", "h", "U+1EA5", "p">> :> LevelLow) @@ (<<"t", "r", "u", "n", "g", SP, "b", "U+00EC", "n", "h">> :> LevelMedium)
    @@ (<<"c", "a", "o">> :> LevelHigh) @@ (<<"n", "g", "h", "i", "U+00EA", "m", SP, "t", "r", "U+1ECD", "n", "g">> :> LevelCritical)

\* the score given to a numeric field whose key is missing
DefaultScore == 50

\* the value _to_int returns when the coercion raises
ToIntOnError == 0

\* bool(v): Python truth value
Truthy(v) ==
    CASE v.t = "null" -> FALSE
      [] v.t = "bool" -> v.b
      [] v.t = "num" -> v.n # 0
      [] v.t = "str" -> v.s # <<>>
      [] v.t = "arr" -> v.a # <<>>
      [] OTHER -> DOMAIN v.m # {}

\* v or d
Or(v, d) == IF Truthy(v) THEN v ELSE d

IsDict(v) == v.t = "obj"

\* d.get(k, default) for a dict d
Get(d, k, default) == IF k \in DOMAIN d.m THEN d.m[k] ELSE default

\* float(s) for a str: surrounding whitespace and one sign are accepted; the
\* strings of the model hold digits, letters and spaces only
StrIsNumber(s) ==
    LET u == Strip(s)
        d == IF u # <<>> /\ u[1] \in {"-", "+"} THEN Tail(u) ELSE u
    IN  d # <<>> /\ \A k \in 1..Len(d) : IsDigit(d[k])

StrToInt(s) ==
    LET u == Strip(s)
        neg == u[1] = "-"
        d == IF u[1] \in {"-", "+"} THEN Tail(u) ELSE u
        n == ScanDigits(d, 1, 0).val.n
    IN  IF neg THEN 0 - n ELSE n

\* _to_int (llm.py 193-197): int(float(x)), and 0 when that raises
ToInt(x) ==
    CASE x.t = "num" -> x.n
      [] x.t = "bool" -> IF x.b THEN 1 ELSE 0
      [] x.t = "str" /\ StrIsNumber(x.s) -> StrToInt(x.s)
      [] OTHER -> ToIntOnError

\* the constructors of app.models.legal store the fields they are given
DocumentMeta(language, domain_tags, parties, governing_law) ==
    [language |-> language, domain_tags |-> domain_tags, parties |-> parties,
     governing_law |-> governing_law]

DocumentSummary(title, overall_summary, one_line_summary, key_points, main_risks, main_protections, recommended_actions) ==
    [title |-> title, overall_summary |-> overall_summary,
     one_line_summary |-> one_line_summary, key_points |-> key_points,
     main_risks |-> main_risks, main_protections |-> main_protections,
     recommended_actions |-> recommended_actions]

DocumentRiskProfile(overall_risk_level, overall_risk_score, risk_dimensions, comments) ==
    [overall_risk_level |-> overall_risk_level, overall_risk_score |-> overall_risk_score,
     risk_dimensions |-> risk_dimensions, comments |-> comments]

ClauseTags(domain, risk, parties) ==
    [domain |-> domain, risk |-> risk, parties |-> parties]

DocumentResult(document_id, meta, summary, risk_profile, clauses, causal_graph, terms) ==
    [document_id |-> document_id, meta |-> meta, summary |-> summary,
     risk_profile |-> risk_profile, clauses |-> clauses, causal_graph |-> causal_graph,
     terms |-> terms]

\* llm.py 214-233: one ClauseResult, for a dict c whose tags are a dict
ClauseResult(c) ==
    LET tags_raw == Or(Get(c, K.tags, EmptyDict), EmptyDict)
    IN  [clause_id |-> Get(c, K.clause_id, JStr(<<"u", "n", "k", "n", "o", "w", "n">>)),
         title |-> Get(c, K.title, JNull),
         raw_text |-> Get(c, K.raw_text, JStr(<<>>)),
         summary |-> Get(c, K.summary, JStr(<<>>)),
         risk_level |-> Get(c, K.risk_level, JStr(LevelMedium)),
         risk_score |-> ToInt(Get(c, K.risk_score, JNum(DefaultScore))),
         risk_factors |-> Or(Get(c, K.risk_factors, EmptyList), EmptyList),
         protections |-> Or(Get(c, K.protections, EmptyList), EmptyList),
         red_flags |-> Or(Get(c, K.red_flags, EmptyList), EmptyList),
         action_guides |-> Or(Get(c, K.action_guides, EmptyList), EmptyList),
         key_points |-> Or(Get(c, K.key_points, EmptyList), EmptyList),
         tags |-> ClauseTags(Or(Get(tags_raw, K.domain, EmptyList), EmptyList),
                             Or(Get(tags_raw, K.risk, EmptyList), EmptyList),
                             Or(Get(tags_raw, K.parties, EmptyList), EmptyList))]

\* llm.py 239-244
ClauseCausality(rel) ==
    [from_clause_id |-> Get(rel, K.from_clause_id, JStr(<<>>)),
     to_clause_id |-> Get(rel, K.to_clause_id, JStr(<<>>)),
     relationship |-> Get(rel, K.relationship, JStr(<<"d", "e", "p", "e", "n", "d", "s", "_", "o", "n">>)),
     description |-> Get(rel, K.description, JStr(<<>>))]

\* llm.py 250-255
TermDefinition(t) ==
    [term |-> Get(t, K.term, JStr(<<>>)),
     korean |-> Get(t, K.korean, JStr(<<>>)),
     english |-> Get(t, K.english, JNull),
     source |-> Get(t, K.source, JStr(<<"M", "O", "L", "E", "G", "/", "L", "L", "M">>))]

NoError == "none"

\* the exception raised by `for x in v: x.get(...)`, v being `data.get(k, []) or []`:
\* an int or a bool is not iterable; a str yields its characters and a dict its
\* keys, which have no get; so has a list element that is not a dict
LoopError(v) ==
    CASE v.t \in {"num", "bool"} -> "TypeError"
      [] v.t \in {"str", "obj"} -> "AttributeError"
      [] v.t = "arr" /\ (\E k \in 1..Len(v.a) : ~IsDict(v.a[k])) -> "AttributeError"
      [] OTHER -> NoError

\* the loop over the clauses also reads c.get("tags", {}) or {} with get
ClauseLoopError(v) ==
    IF LoopError(v) # NoError THEN LoopError(v)
    ELSE IF \E k \in 1..Len(v.a) :
                ~IsDict(Or(Get(v.a[k], K.tags, EmptyDict), EmptyDict))
         THEN "AttributeError"
         ELSE NoError

Raised(e) == [raised |-> TRUE, exception |-> e, value |-> JNull]
Returned(v) == [raised |-> FALSE, exception |-> NoError, value |-> v]

\* a meta whose language is always the default
MetaOfDefaultLanguage(meta_raw) ==
    DocumentMeta(JStr(<<"k", "o">>),
                 Get(meta_raw, K.domain_tags, EmptyList),
                 Get(meta_raw, K.parties, EmptyList),
                 Get(meta_raw, K.governing_law, JNull))

\* a meta whose lists have no default
MetaOfNoDefaults(meta_raw) ==
    DocumentMeta(Get(meta_raw, K.language, JStr(<<"k", "o">>)),
                 Get(meta_raw, K.domain_tags, JNull),
                 Get(meta_raw, K.parties, JNull),
                 Get(meta_raw, K.governing_law, JNull))

\* llm.py 173-178, for a dict meta_raw
MetaOf(meta_raw) ==
    DocumentMeta(Get(meta_raw, K.language, JStr(<<"k", "o">>)),
                 Get(meta_raw, K.domain_tags, EmptyList),
                 Get(meta_raw, K.parties, EmptyList),
                 Get(meta_raw, K.governing_law, JNull))

\* llm.py 181-189, for a dict summary_raw
SummaryOf(summary_raw) ==
    DocumentSummary(Get(summary_raw, K.title, JNull),
                    Get(summary_raw, K.overall_summary, JStr(<<>>)),
                    Get(summary_raw, K.one_line_summary, JStr(<<>>)),
                    Or(Get(summary_raw, K.key_points, EmptyList), EmptyList),
                    Or(Get(summary_raw, K.main_risks, EmptyList), EmptyList),
                    Or(Get(summary_raw, K.main_protections, EmptyList), EmptyList),
                    Or(Get(summary_raw, K.recommended_actions, EmptyList), EmptyList))

\* a level that is lower-cased and never looked up
MappedLevelLowered(level) == Lower(level)

\* llm.py 199-200, for a str level: the canonical level, or the lower-cased text
MappedLevel(level) ==
    LET raw_level == Lower(level)
    IN  IF raw_level \in DOMAIN RISK_LEVEL_MAP THEN RISK_LEVEL_MAP[raw_level]
        ELSE raw_level

\* llm.py 199-210, for a dict risk_raw whose level is a str and whose
\* dimensions are a dict
RiskProfileOf(risk_raw) ==
    LET level == Or(Get(risk_raw, K.overall_risk_level, JStr(LevelMedium)), JStr(<<>>))
        dims_raw == Or(Get(risk_raw, K.risk_dimensions, EmptyDict), EmptyDict)
    IN  DocumentRiskProfile(MappedLevel(level.s),
                            ToInt(Get(risk_raw, K.overall_risk_score, JNum(DefaultScore))),
                            [k \in DOMAIN dims_raw.m |-> ToInt(dims_raw.m[k])],
                            Get(risk_raw, K.comments, JStr(<<>>)))

\* the exception of llm.py 172-203, if any: get, lower and items exist on
\* dict, str and dict only
HeadError(d) ==
    IF ~IsDict(d) THEN "AttributeError"
    ELSE LET meta_raw == Or(Get(d, K.meta, EmptyDict), EmptyDict)
             summary_raw == Or(Get(d, K.summary, EmptyDict), EmptyDict)
             risk_raw == Or(Get(d, K.risk_profile, EmptyDict), EmptyDict)
         IN  IF ~IsDict(meta_raw) \/ ~IsDict(summary_raw) \/ ~IsDict(risk_raw)
             THEN "AttributeError"
             ELSE IF Or(Get(risk_raw, K.overall_risk_level, JStr(LevelMedium)),
                        JStr(<<>>)).t # "str"
             THEN "AttributeError"
             ELSE IF ~IsDict(Or(Get(risk_raw, K.risk_dimensions, EmptyDict), EmptyDict))
             THEN "AttributeError"
             ELSE NoError

\* llm.py 170-266.  The value is the DocumentResult, or the exception that
\* leaves the function.
SafeParseDocumentResult(d) ==
    IF HeadError(d) # NoError THEN Raised(HeadError(d))
    ELSE
    LET clauses_in == Or(Get(d, K.clauses, EmptyList), EmptyList)
        causal_in == Or(Get(d, K.causal_graph, EmptyList), EmptyList)
        terms_in == Or(Get(d, K.terms, EmptyList), EmptyList)
    IN  IF ClauseLoopError(clauses_in) # NoError THEN Raised(ClauseLoopError(clauses_in))
        ELSE IF LoopError(causal_in) # NoError THEN Raised(LoopError(causal_in))
        ELSE IF LoopError(terms_in) # NoError THEN Raised(LoopError(terms_in))
        ELSE Returned(DocumentResult(
                 Get(d, K.document_id, JStr(<<"a", "u", "t", "o", "_", "g", "e", "n", "e", "r", "a", "t", "e", "d">>)),
                 MetaOf(Or(Get(d, K.meta, EmptyDict), EmptyDict)),
                 SummaryOf(Or(Get(d, K.summary, EmptyDict), EmptyDict)),
                 RiskProfileOf(Or(Get(d, K.risk_profile, EmptyDict), EmptyDict)),
                 [k \in 1..Len(clauses_in.a) |-> ClauseResult(clauses_in.a[k])],
                 [k \in 1..Len(causal_in.a) |-> ClauseCausality(causal_in.a[k])],
                 [k \in 1..Len(terms_in.a) |-> TermDefinition(terms_in.a[k])]))

(***************************************************************************)
(* The texts and decoded objects the calls are run on                      *)
(***************************************************************************)
\* the longest text of Short
MaxLen == 4

Sigma == {"{", "}", DQ, ",", SP, "[", "]", "1"}

\* every text over Sigma of at most MaxLen characters
Short == UNION {[1..n -> Sigma] : n \in 0..MaxLen}

\* texts of JSON objects, as a model that follows the prompt would emit them
ObjTexts ==
    { <<"{", "}">>,
      <<"{", DQ, "a", DQ, ":", SP, "1", "}">>,
      <<"{", DQ, "a", DQ, ":", SP, "1", ",", SP, DQ, "b", DQ, ":", SP, "2", "}">>,
      <<"{", DQ, "a", DQ, ":", SP, "{", DQ, "b", DQ, ":", SP, "1", "}", "}">>,
      <<"{", DQ, "a", DQ, ":", SP, "[", "1", ",", SP, "2", "]", "}">>,
      <<"{", DQ, "a", DQ, ":", SP, DQ, ",", SP, "}", DQ, "}">>,
      <<"{", DQ, "a", DQ, ":", SP, "{", "}", ",", SP, DQ, "b", DQ, ":", SP, "{", "}", "}">>,
      <<"{", DQ, "a", DQ, ":", SP, "{", "}", ",", SP, DQ, "b", DQ, ":", SP, "[", "1", "]", "}">>,
      <<"{", DQ, "a", DQ, ":", SP, DQ, "x", DQ, ",", SP, DQ, "b", DQ, ":", SP, "[", "{", "}", "]", "}">>,
      <<"{", DQ, "s", "u", "m", "m", "a", "r", "y", DQ, ":", SP, "{", "}", "}">>,
      <<"{", DQ, "m", "e", "t", "a", DQ, ":", SP, "1", "}">>,
      <<"{", DQ, "t", "e", "r", "m", "s", DQ, ":", SP, "[", "1", "]", "}">> }

\* s with every closer (or only the last one) that is not inside a string
\* preceded by a comma and sep: "}" becomes ", }" and "]" becomes ", ]"
RECURSIVE InjectFrom(_, _, _, _, _)
InjectFrom(s, i, inString, sep, onlyLast) ==
    IF i > Len(s) THEN <<>>
    ELSE IF s[i] = DQ THEN <<DQ>> \o InjectFrom(s, i + 1, ~inString, sep, onlyLast)
    ELSE IF ~inString /\ s[i] \in {"}", "]"} /\ (~onlyLast \/ i = Len(s))
         THEN <<",">> \o sep \o <<s[i]>> \o InjectFrom(s, i + 1, inString, sep, onlyLast)
    ELSE <<s[i]>> \o InjectFrom(s, i + 1, inString, sep, onlyLast)

InjectAll(s) == InjectFrom(s, 1, FALSE, <<SP>>, FALSE)
InjectLast(s) == InjectFrom(s, 1, FALSE, <<SP>>, TRUE)
InjectLastNewline(s) == InjectFrom(s, 1, FALSE, <<NL>>, TRUE)

\* object texts with trailing-comma artifacts
WithArtifacts ==
    {InjectAll(o) : o \in ObjTexts} \cup {InjectLast(o) : o \in ObjTexts}
    \cup {InjectLastNewline(o) : o \in ObjTexts}
    \cup {InjectLast(InjectLast(o)) : o \in ObjTexts}
    \cup {InjectLast(InjectLast(InjectLast(InjectLast(o)))) : o \in ObjTexts}

\* text that follows the object
Noises == { <<SP, "x">>, <<SP, "e", "n", "d", ".">>, <<"}">>, <<",">>, <<SP, "{">>, <<NL>> \o Fence, <<SP, "}", "}">> }

WithNoise == {o \o n : o \in ObjTexts, n \in Noises}

\* an output cut off by the token limit: the proper prefixes of the object texts
Truncated == UNION {{SubSeq(o, 1, n) : n \in 1..(Len(o) - 1)} : o \in ObjTexts}

\* an output wrapped in a code fence or preceded by prose
FenceOpen == Fence \o JsonTag \o <<NL>>
FenceClose == <<NL>> \o Fence

Fenced ==
    {FenceOpen \o o \o FenceClose : o \in ObjTexts}
    \cup {Fence \o <<"J", "S", "O", "N", NL>> \o o \o FenceClose : o \in ObjTexts}
    \cup {Fence \o <<NL>> \o o \o FenceClose : o \in ObjTexts}
    \cup {FenceOpen \o o : o \in ObjTexts}
    \cup {<<"S", "u", "r", "e", ":", SP>> \o o \o <<NL>> : o \in ObjTexts}
    \cup {<<"S", "u", "r", "e", ":", SP>> \o FenceOpen \o o \o FenceClose \o <<SP>> : o \in ObjTexts}
    \cup {o \o Fence \o <<BQ>> : o \in ObjTexts}

\* an answer that is a JSON literal
Literals == {LitNull, <<SP>> \o LitNull \o <<NL>>, LitTrue}

RawInputs ==
    Short \cup ObjTexts \cup WithArtifacts \cup WithNoise \cup Truncated \cup Fenced \cup Literals

\* values found where a number is expected
ScoreValues ==
    { JNum(70), JNum(0), JStr(<<"8", "5">>), JStr(<<SP, "7", SP>>), JStr(<<"h", "i", "g", "h">>), JStr(<<>>),
      JNull, JBool(TRUE), JArr(<<JNum(1)>>), EmptyList, JObj(<<"a">> :> JNum(1)) }

\* values found where a risk level is expected
LevelValues ==
    { JStr(<<"h", "i", "g", "h">>), JStr(<<"H", "I", "G", "H">>), JStr(<<"L", "o", "w">>), JStr(<<"m", "e", "d", "i", "u", "m">>), JStr(<<"m", "o", "d", "e", "r", "a", "t", "e">>),
      JStr(<<"c", "r", "i", "t", "i", "c", "a", "l">>), JStr(<<"s", "e", "v", "e", "r", "e">>), JStr(<<"c", "a", "o">>), JStr(<<"u", "r", "g", "e", "n", "t">>), JStr(<<"U", "r", "g", "e", "n", "t">>),
      JStr(<<"t", "h", "U+1EA5", "p">>), JStr(<<"t", "r", "u", "n", "g", SP, "b", "U+00EC", "n", "h">>),
      JStr(<<"n", "g", "h", "i", "U+00EA", "m", SP, "t", "r", "U+1ECD", "n", "g">>),
      JStr(LevelHigh), JStr(<<>>), JNull, JNum(3) }

\* one-key dicts
Obj1(k, v) == JObj(k :> v)
Obj2(k1, v1, k2, v2) == JObj((k1 :> v1) @@ (k2 :> v2))

\* objects that lack keys, or hold null or a value of another shape for them
ShapeInputs ==
    { EmptyDict,
      Obj1(K.summary, EmptyDict),
      Obj1(K.meta, EmptyDict),
      Obj1(K.meta, JNull),
      Obj1(K.meta, Obj1(K.domain_tags, JNull)),
      Obj1(K.meta, Obj1(K.language, JStr(<<"e", "n">>))),
      Obj1(K.summary, Obj1(K.key_points, JNull)),
      Obj1(K.summary, Obj1(K.title, JStr(<<"T">>))),
      Obj1(K.risk_profile, EmptyDict),
      Obj1(K.risk_profile, Obj1(K.risk_dimensions, EmptyDict)),
      Obj1(K.clauses, JNull),
      Obj1(K.clauses, JArr(<<EmptyDict>>)),
      Obj1(K.clauses, JArr(<<Obj1(K.tags, EmptyDict), Obj1(K.clause_id, JStr(<<"c", "2">>))>>)),
      Obj1(K.clauses, JArr(<<Obj1(K.risk_factors, JNull)>>)),
      Obj1(K.clauses, JArr(<<Obj1(K.tags, Obj1(K.domain, JArr(<<JStr(<<"i", "t">>)>>)))>>)),
      Obj1(K.causal_graph, JArr(<<EmptyDict>>)),
      Obj1(K.terms, JArr(<<EmptyDict>>)),
      Obj2(K.document_id, JStr(<<"d", "1">>), K.terms, JArr(<<Obj1(K.term, JStr(<<"T">>))>>)),
      Obj1(K.meta, JNum(1)),
      Obj1(K.summary, JStr(<<"x">>)),
      Obj1(K.risk_profile, JArr(<<JNum(1)>>)),
      Obj1(K.risk_profile, Obj1(K.risk_dimensions, JArr(<<JNum(1)>>))),
      Obj1(K.clauses, JNum(5)),
      Obj1(K.clauses, JStr(<<"x">>)),
      Obj1(K.clauses, JArr(<<JNum(1)>>)),
      Obj1(K.clauses, JArr(<<Obj1(K.tags, JNum(1))>>)),
      Obj1(K.causal_graph, JArr(<<JStr(<<"x">>)>>)),
      Obj1(K.terms, JBool(TRUE)) }

\* decoded objects handed to _safe_parse_document_result
DataInputs ==
    ShapeInputs
    \cup {Obj1(K.risk_profile, Obj1(K.overall_risk_score, v)) : v \in ScoreValues}
    \cup {Obj1(K.risk_profile, Obj1(K.risk_dimensions, Obj1(<<"l", "e", "g", "a", "l">>, v))) : v \in ScoreValues}
    \cup {Obj1(K.clauses, JArr(<<Obj1(K.risk_score, v)>>)) : v \in ScoreValues}
    \cup {Obj1(K.risk_profile, Obj1(K.overall_risk_level, v)) : v \in LevelValues}
    \cup {Obj1(K.clauses, JArr(<<EmptyDict, Obj1(K.risk_level, v)>>)) : v \in LevelValues}

\* the pre-analysis hints of the request (NLPInfo)
NlpInfos ==
    { [language |-> <<"k", "o">>, domain_tags |-> <<>>, parties |-> <<>>],
      [language |-> <<"e", "n">>, domain_tags |-> << <<"l", "e", "a", "s", "e">> >>,
       parties |-> << <<"A">>, <<"B">> >>] }

NoNlp == [language |-> <<>>, domain_tags |-> <<>>, parties |-> <<>>]
NoResult == [raised |-> FALSE, exception |-> NoError, value |-> JNull]

(***************************************************************************)
(* _stream_llm_text, llm.py 53-70                                          *)
(*                                                                         *)
(* A chunk of the streaming response: candidates is FALSE when the chunk   *)
(* has no attribute candidates or an empty one; broken is TRUE when        *)
(* reading chunk.candidates[0].content.parts raises; parts are the parts   *)
(* of the first candidate.  A part has an attribute text or none.          *)
(***************************************************************************)
TextPart(t) == [has_text |-> TRUE, text |-> t]
OtherPart == [has_text |-> FALSE, text |-> <<>>]

ChunkOf(parts) == [candidates |-> TRUE, broken |-> FALSE, parts |-> parts]
ChunkNoCandidates == [candidates |-> FALSE, broken |-> FALSE, parts |-> <<>>]
ChunkBroken == [candidates |-> TRUE, broken |-> TRUE, parts |-> <<>>]

\* a loop that appends the text of the first part only
RECURSIVE AppendFirstPart(_, _, _)
AppendFirstPart(list, parts, i) ==
    IF i > Len(parts) \/ i > 1 THEN list
    ELSE IF parts[i].has_text /\ parts[i].text # <<>>
         THEN AppendFirstPart(Append(list, parts[i].text), parts, i + 1)
         ELSE AppendFirstPart(list, parts, i + 1)

\* llm.py 62-64: the texts of the parts, each appended when the part has a
\* text that is not empty
RECURSIVE AppendParts(_, _, _)
AppendParts(list, parts, i) ==
    IF i > Len(parts) THEN list
    ELSE IF parts[i].has_text /\ parts[i].text # <<>>
         THEN AppendParts(Append(list, parts[i].text), parts, i + 1)
         ELSE AppendParts(list, parts, i + 1)

\* llm.py 55-68: one iteration of the loop over the response
ChunkStep(list, chunk) ==
    IF ~chunk.candidates THEN list
    ELSE IF chunk.broken THEN list
    ELSE AppendParts(list, chunk.parts, 1)

\* llm.py 70: "".join(chunks)
RECURSIVE Join(_)
Join(list) ==
    IF list = <<>> THEN <<>>
    ELSE Join(SubSeq(list, 1, Len(list) - 1)) \o list[Len(list)]

\* the longest response
MaxChunks == 3

ChunkKinds ==
    { ChunkNoCandidates,
      ChunkBroken,
      ChunkOf(<<>>),
      ChunkOf(<<TextPart(<<"{", DQ, "a", DQ, ":">>)>>),
      ChunkOf(<<TextPart(<<SP, "1", "}">>)>>),
      ChunkOf(<<TextPart(<<>>), OtherPart, TextPart(<<"}">>)>>),
      ChunkOf(<<TextPart(<<"{">>), TextPart(<<DQ, "b", DQ, ":", SP, "2">>)>>) }

Responses == UNION {[1..n -> ChunkKinds] : n \in 0..MaxChunks}

NoStream == response = <<>> /\ pos = 0 /\ chunks = <<>>

(***************************************************************************)
(* analyze_contract, llm.py 297-345, after the LLM has answered raw        *)
(***************************************************************************)
\* llm.py 316-341
FallbackData(nlp) ==
    JObj((K.document_id :> JStr(<<"f", "a", "l", "l", "b", "a", "c", "k">>))
      @@ (K.meta :> JObj((K.language :> JStr(nlp.language))
                      @@ (K.domain_tags :> JArr([k \in 1..Len(nlp.domain_tags) |-> JStr(nlp.domain_tags[k])]))
                      @@ (K.parties :> JArr([k \in 1..Len(nlp.parties) |-> JStr(nlp.parties[k])]))))
      @@ (K.summary :> JObj((K.title :> JStr(<<"A", "I", SP, "U+BD84", "U+C11D", SP, "U+C624", "U+B958">>))
                         @@ (K.overall_summary :> JStr(<<"L", "L", "M", SP, "U+C751", "U+B2F5", SP, "U+D30C", "U+C2F1", SP, "U+C2E4", "U+D328", ".">>))
                         @@ (K.one_line_summary :> JStr(<<"U+D30C", "U+C2F1", SP, "U+C624", "U+B958">>))
                         @@ (K.key_points :> EmptyList)
                         @@ (K.main_risks :> EmptyList)
                         @@ (K.main_protections :> EmptyList)
                         @@ (K.recommended_actions :> EmptyList)))
      @@ (K.risk_profile :> JObj((K.overall_risk_level :> JStr(LevelMedium))
                              @@ (K.overall_risk_score :> JNum(50))
                              @@ (K.risk_dimensions :> EmptyDict)
                              @@ (K.comments :> JStr(<<"L", "L", "M", SP, "U+C751", "U+B2F5", SP, "U+D30C", "U+C2F1", SP, "U+C624", "U+B958", ".">>))))
      @@ (K.clauses :> EmptyList)
      @@ (K.causal_graph :> EmptyList)
      @@ (K.terms :> EmptyList))

\* a decode that takes every falsy value, not None alone, for a failure
DecodeTruthyOnly(text, nlp) ==
    LET first == JsonLoads(text)
        last == RFind(text, "}")
        second == IF last # -1 THEN JsonLoads(SubSeq(text, 1, last + 1))
                  ELSE [ok |-> FALSE, val |-> JNull]
    IN  IF first.ok /\ Truthy(first.val) THEN [data |-> first.val, by |-> "first"]
        ELSE IF second.ok /\ Truthy(second.val) THEN [data |-> second.val, by |-> "retry"]
        ELSE [data |-> FallbackData(nlp), by |-> "fallback"]

\* llm.py 300-341: the first decode, the retry on the text up to the last "}",
\* the fallback.  by names the assignment that gave data its value.
DecodeOrFallback(text, nlp) ==
    LET first == JsonLoads(text)
        last == RFind(text, "}")
        second == IF last # -1 THEN JsonLoads(SubSeq(text, 1, last + 1))
                  ELSE [ok |-> FALSE, val |-> JNull]
    IN  IF first.ok /\ first.val # JNull THEN [data |-> first.val, by |-> "first"]
        ELSE IF second.ok /\ second.val # JNull THEN [data |-> second.val, by |-> "retry"]
        ELSE [data |-> FallbackData(nlp), by |-> "fallback"]

\* llm.py 297-343: the result, or the exception, of the reconciliation of text
Reconcile(text, nlp) ==
    SafeParseDocumentResult(DecodeOrFallback(RepairJson(StripToJson(text)), nlp).data)

\* the tables after Base.metadata.create_all on a new database file
EmptyDb == [users |-> {}, documents |-> {}, clauses |-> {}, terms |-> {}, conversations |-> {}, bookmarks |-> {}, share_links |-> {}]
NoSeq == [users |-> 0, documents |-> 0, clauses |-> 0, terms |-> 0, conversations |-> 0, bookmarks |-> 0, share_links |-> 0, request |-> 0, token |-> 0]
NoResponse == [n |-> 0, route |-> "none", user |-> 0, id |-> 0, status |-> 0, ids |-> {}, flag |-> FALSE, token |-> 0]
NoDb == db = EmptyDb /\ seq = NoSeq /\ reqs = {} /\ http = NoResponse

NoCall == [text |-> <<>>, language |-> <<>>, output_language |-> <<>>, hit |-> FALSE, answer |-> <<>>, outcome |-> NoResult]
EmptyCache == <<>>
NoCalls == cache = EmptyCache /\ prompts = 0 /\ llm_calls = 0 /\ calls = 0 /\ last_call = NoCall /\ first_result = <<>> /\ made_for = <<>>

Init ==
    /\ \/ pc = "idle" /\ raw \in RawInputs /\ arg = JNull /\ NoStream
       \/ pc = "idle" /\ raw = <<>> /\ arg \in DataInputs /\ NoStream
       \/ pc = "streaming" /\ raw = <<>> /\ arg = JNull
          /\ response \in Responses /\ pos = 1 /\ chunks = <<>>
    /\ nlp_info = NoNlp
    /\ stripped = <<>>
    /\ repaired = <<>>
    /\ data = JNull
    /\ decoded_by = "none"
    /\ out = <<>>
    /\ out2 = <<>>
    /\ result = NoResult
    /\ NoCalls
    /\ NoDb

\* llm.py 55-68: the loop of _stream_llm_text takes the next chunk
StreamChunk ==
    /\ pc = "streaming" /\ pos <= Len(response)
    /\ chunks' = ChunkStep(chunks, response[pos])
    /\ pos' = pos + 1
    /\ UNCHANGED <<callVars, response, cacheVars, dbVars>>

\* llm.py 70 and 291: the response is exhausted, the joined text is raw_text
StreamReturn ==
    /\ pc = "streaming" /\ pos > Len(response)
    /\ raw' = Join(chunks)
    /\ pc' = "idle"
    /\ UNCHANGED <<arg, nlp_info, stripped, repaired, data, decoded_by, out, out2, result, streamVars, cacheVars, dbVars>>

\* a call of _repair_json(raw)
CallRepairJson ==
    /\ pc = "idle" /\ arg = JNull
    /\ out' = RepairJson(raw)
    /\ pc' = "repair_returned"
    /\ UNCHANGED <<raw, arg, nlp_info, stripped, repaired, data, decoded_by, out2, result, streamVars, cacheVars, dbVars>>

\* a call of _repair_json on the text the first call returned
CallRepairJsonAgain ==
    /\ pc = "repair_returned"
    /\ out2' = RepairJson(out)
    /\ pc' = "repair_returned_twice"
    /\ UNCHANGED <<raw, arg, nlp_info, stripped, repaired, data, decoded_by, out, result, streamVars, cacheVars, dbVars>>

\* a call of _safe_parse_document_result(arg)
CallSafeParse ==
    /\ pc = "idle" /\ arg # JNull
    /\ result' = SafeParseDocumentResult(arg)
    /\ pc' = IF result'.raised THEN "parse_raised" ELSE "parse_returned"
    /\ UNCHANGED <<raw, arg, nlp_info, stripped, repaired, data, decoded_by, out, out2, streamVars, cacheVars, dbVars>>

\* analyze_contract with the LLM's answer raw: llm.py 297
AnalyzeStrip ==
    /\ pc = "idle" /\ arg = JNull
    /\ nlp_info' \in NlpInfos
    /\ stripped' = StripToJson(raw)
    /\ pc' = "stripped"
    /\ UNCHANGED <<raw, arg, repaired, data, decoded_by, out, out2, result, streamVars, cacheVars, dbVars>>

\* llm.py 298
AnalyzeRepair ==
    /\ pc = "stripped"
    /\ repaired' = RepairJson(stripped)
    /\ pc' = "repaired"
    /\ UNCHANGED <<raw, arg, nlp_info, stripped, data, decoded_by, out, out2, result, streamVars, cacheVars, dbVars>>

\* llm.py 300-341
AnalyzeDecode ==
    /\ pc = "repaired"
    /\ LET d == DecodeOrFallback(repaired, nlp_info)
       IN  data' = d.data /\ decoded_by' = d.by
    /\ pc' = "decoded"
    /\ UNCHANGED <<raw, arg, nlp_info, stripped, repaired, out, out2, result, streamVars, cacheVars, dbVars>>

\* llm.py 343-345: the result is returned, or the exception of
\* _safe_parse_document_result leaves analyze_contract
AnalyzeMaterialize ==
    /\ pc = "decoded"
    /\ result' = SafeParseDocumentResult(data)
    /\ pc' = IF result'.raised THEN "raised" ELSE "returned"
    /\ UNCHANGED <<raw, arg, nlp_info, stripped, repaired, data, decoded_by, out, out2, streamVars, cacheVars, dbVars>>

Next ==
    \/ StreamChunk
    \/ StreamReturn
    \/ CallRepairJson
    \/ CallRepairJsonAgain
    \/ CallSafeParse
    \/ AnalyzeStrip
    \/ AnalyzeRepair
    \/ AnalyzeDecode
    \/ AnalyzeMaterialize

Spec == Init /\ [][Next]_vars

(***************************************************************************)
(* Claims                                                                  *)
(***************************************************************************)
\* the text of a JSON object, from its "{" to its "}"
IsObjectText(x) ==
    /\ Len(x) >= 2
    /\ x[1] = "{"
    /\ x[Len(x)] = "}"
    /\ JsonLoads(x).ok
    /\ JsonLoads(x).val.t = "obj"

\* the dict under key k of the dict d, or the empty dict
Sub(d, k) == IF k \in DOMAIN d.m /\ IsDict(d.m[k]) THEN d.m[k] ELSE EmptyDict

Lacks(d, k) == k \notin DOMAIN d.m

\* the decoded object the result in hand was built from
Source == IF pc = "returned" THEN data ELSE arg

\* C1: whatever the raw text, analyze_contract ends by returning a result
\* record: no exception leaves it.
C1_NeverRaises == pc # "raised"

\* C2: when the stripped and repaired text does not parse as JSON,
\* analyze_contract returns a result whose document_id is "fallback" and whose
\* clauses, causal_graph and terms are empty.
C2_FallbackOnNonJson ==
    (pc \in {"returned", "raised"} /\ ~Parses(repaired)) =>
        /\ pc = "returned"
        /\ result.value.document_id = JStr(<<"f", "a", "l", "l", "b", "a", "c", "k">>)
        /\ result.value.clauses = <<>>
        /\ result.value.causal_graph = <<>>
        /\ result.value.terms = <<>>

\* a text with a "}" that no repair stage makes parse has been answered
C2_Witness ==
    /\ pc = "returned"
    /\ ~Parses(repaired)
    /\ RFind(repaired, "}") # -1
    /\ Len(raw) > Len(stripped)

\* C3: _repair_json returns a text that parses as JSON, or its argument
\* character for character.
C3_ParsesOrOriginal ==
    pc = "repair_returned" => (Parses(out) \/ out = raw)

\* a repaired text that is neither the argument nor the argument stripped
C3_Witness ==
    /\ pc = "repair_returned"
    /\ out \notin {raw, Strip(raw)}
    /\ Parses(out)

\* C4: _repair_json applied to its own output returns that output.
C4_Idempotent ==
    pc = "repair_returned_twice" => out2 = out

\* the first application changed the text
C4_Witness ==
    /\ pc = "repair_returned_twice"
    /\ out # raw
    /\ out2 = out

\* the object text between an opening fence with the tag json and a closing fence
FenceInner(x) == SubSeq(x, Len(FenceOpen) + 1, Len(x) - Len(FenceClose))

IsFencedObject(x) ==
    /\ Len(x) >= Len(FenceOpen) + Len(FenceClose) + 2
    /\ StartsWith(x, FenceOpen)
    /\ EndsWith(x, FenceClose)
    /\ IsObjectText(FenceInner(x))

\* C5: for a text made of the fence, the tag json, a newline, an object text,
\* a newline and the closing fence, _strip_to_json returns the object text.
C5_FenceStripping ==
    (pc = "stripped" /\ IsFencedObject(raw)) => stripped = FenceInner(raw)

C5_Witness ==
    /\ pc = "stripped"
    /\ IsFencedObject(raw)
    /\ Len(stripped) > 2

\* C6: for an object text in which closers were replaced by ", }" and ", ]",
\* _repair_json returns a text that parses and decodes to the object of the
\* text without the artifacts, after at most 3 passes of the comma loop.
C6_TrailingCommaTolerance ==
    pc = "repair_returned" =>
        \A o \in ObjTexts :
            raw \in {InjectAll(o), InjectLast(o)} =>
                /\ Parses(out)
                /\ JsonLoads(out).val = JsonLoads(o).val
                /\ RepairJsonRun(raw).passes <= 3

\* the text up to the last "}" of the stripped argument
CutAtLastBrace(x) == SubSeq(Strip(x), 1, RFind(Strip(x), "}") + 1)

\* x is an object text of n characters followed by text that is not blank
IsObjectThenNoise(x, n) ==
    /\ n < Len(x)
    /\ IsObjectText(SubSeq(x, 1, n))
    /\ Strip(SubSeq(x, n + 1, Len(x))) # <<>>

\* C7: for an object text followed by other text, _repair_json returns the
\* text up to the last "}" when that parses, and that is the object text.
C7_TruncationTolerance ==
    pc = "repair_returned" =>
        \A n \in 1..Len(raw) :
            (IsObjectThenNoise(raw, n) /\ Parses(CutAtLastBrace(raw))) =>
                /\ out = CutAtLastBrace(raw)
                /\ out = SubSeq(raw, 1, n)

C7_Witness ==
    /\ pc = "repair_returned"
    /\ \E n \in 1..Len(raw) : IsObjectThenNoise(raw, n) /\ n > 2
    /\ Parses(CutAtLastBrace(raw))
    /\ Len(out) < Len(Strip(raw))

\* the text _repair_json works on once parsing as is, cutting at the last "}"
\* and stripping the commas have failed; failed is FALSE when one of them
\* gave a text that parses
WorkingText(x) ==
    LET s0 == Strip(x)
        cut == IF RFind(s0, "}") # -1 THEN CutAtLastBrace(x) ELSE s0
        loop == CommaLoop(cut, MaxPasses, 0)
    IN  [failed |-> x # <<>> /\ ~Parses(s0) /\ ~Parses(cut) /\ ~loop.found, s |-> loop.s]

Deficit(x) == Count(x, "{") - Count(x, "}")

\* the object of the claim that lacks one closing brace
C8_Example == <<"{", DQ, "a", DQ, ":", SP, "{", DQ, "b", DQ, ":", SP, "1", "}">>

\* C8 as stated: when the earlier steps fail and the argument holds more "{"
\* than "}", the argument with that many "}" appended is returned if it parses.
C8_DeficitOfArgument ==
    pc = "repair_returned" =>
        LET s0 == Strip(raw)
        IN  (WorkingText(raw).failed /\ Deficit(s0) > 0
             /\ Parses(s0 \o Braces(Deficit(s0)))) =>
                out = s0 \o Braces(Deficit(s0))

\* C8, amended: the braces are counted on, and appended to, the working text
\* (the stripped argument cut after its last "}", commas stripped); the padded
\* text is returned if it parses and the argument otherwise.  The example gets
\* exactly one "}" and decodes with a.b = 1.
C8_DeficitOfWorkingText ==
    pc = "repair_returned" =>
        LET w == WorkingText(raw)
            padded == w.s \o Braces(Deficit(w.s))
        IN  /\ (w.failed /\ Deficit(w.s) > 0) =>
                   out = IF Parses(padded) THEN padded ELSE raw
            /\ raw = C8_Example =>
                   /\ out = raw \o <<"}">>
                   /\ JsonLoads(out).val.m[<<"a">>].m[<<"b">>] = JNum(1)

\* braces were appended to a text that had been cut after its last "}"
C8_Witness ==
    /\ pc = "repair_returned"
    /\ WorkingText(raw).failed
    /\ Deficit(WorkingText(raw).s) > 0
    /\ Len(WorkingText(raw).s) < Len(Strip(raw))
    /\ Parses(out)

\* the list fields of the summary and of a clause
SummaryLists == {"key_points", "main_risks", "main_protections", "recommended_actions"}
ClauseLists == {"risk_factors", "protections", "red_flags", "action_guides", "key_points"}
TagLists == {"domain", "risk", "parties"}

\* C9: in a result, every list field whose key is missing from the decoded
\* object is the empty list and every score whose key is missing is 50.
C9_DefaultFilling ==
    (pc \in {"returned", "parse_returned"}) =>
        LET d == Source
            v == result.value
            cl == IF Lacks(d, K.clauses) THEN <<>> ELSE Or(d.m[K.clauses], EmptyList).a
        IN  /\ Lacks(Sub(d, K.meta), K.domain_tags) => v.meta.domain_tags = EmptyList
            /\ Lacks(Sub(d, K.meta), K.parties) => v.meta.parties = EmptyList
            /\ \A f \in SummaryLists :
                   Lacks(Sub(d, K.summary), K[f]) => v.summary[f] = EmptyList
            /\ Lacks(Sub(d, K.risk_profile), K.overall_risk_score) =>
                   v.risk_profile.overall_risk_score = 50
            /\ Lacks(d, K.clauses) => v.clauses = <<>>
            /\ Lacks(d, K.causal_graph) => v.causal_graph = <<>>
            /\ Lacks(d, K.terms) => v.terms = <<>>
            /\ Len(v.clauses) = Len(cl)
            /\ \A i \in 1..Len(cl) :
                   /\ Lacks(cl[i], K.risk_score) => v.clauses[i].risk_score = 50
                   /\ \A f \in ClauseLists :
                          Lacks(cl[i], K[f]) => v.clauses[i][f] = EmptyList
                   /\ \A f \in TagLists :
                          Lacks(Sub(cl[i], K.tags), K[f]) => v.clauses[i].tags[f] = EmptyList

\* the object {"summary": {}} has been decoded from text and materialized
C9_Witness ==
    /\ pc = "returned"
    /\ decoded_by = "first"
    /\ data = Obj1(K.summary, EmptyDict)
    /\ result.value.risk_profile.overall_risk_score = 50
    /\ result.value.meta.domain_tags = EmptyList
    /\ result.value.clauses = <<>>

\* a value int(float(x)) rejects
NonNumeric(x) == x.t \in {"null", "arr", "obj"} \/ (x.t = "str" /\ ~StrIsNumber(x.s))

\* C10: a score that cannot be coerced to a number is stored as 50, and no
\* error is raised.
C10_UnparsableScoreIs50 ==
    (pc \in {"parse_returned", "parse_raised"}) =>
        LET risk == Sub(arg, K.risk_profile)
            dims == Sub(risk, K.risk_dimensions)
            cl == IF ~Lacks(arg, K.clauses) /\ arg.m[K.clauses].t = "arr"
                  THEN arg.m[K.clauses].a ELSE <<>>
        IN  /\ (~Lacks(risk, K.overall_risk_score) /\ NonNumeric(risk.m[K.overall_risk_score])) =>
                   /\ ~result.raised
                   /\ result.value.risk_profile.overall_risk_score = 50
            /\ \A k \in DOMAIN dims.m :
                   NonNumeric(dims.m[k]) =>
                       /\ ~result.raised
                       /\ result.value.risk_profile.risk_dimensions[k] = 50
            /\ \A i \in 1..Len(cl) :
                   (IsDict(cl[i]) /\ ~Lacks(cl[i], K.risk_score) /\ NonNumeric(cl[i].m[K.risk_score])) =>
                       /\ ~result.raised
                       /\ result.value.clauses[i].risk_score = 50

\* the four canonical risk levels
CanonicalLevels == {LevelLow, LevelMedium, LevelHigh, LevelCritical}

\* the str under overall_risk_level of the decoded object d, if there is one
HasDocLevel(d) ==
    /\ IsDict(d)
    /\ ~Lacks(Sub(d, K.risk_profile), K.overall_risk_level)
    /\ Sub(d, K.risk_profile).m[K.overall_risk_level].t = "str"

DocLevel(d) == Sub(d, K.risk_profile).m[K.overall_risk_level].s

\* C11: when overall_risk_level is a key of the vocabulary, the result is
\* returned with the mapped value as its level, one of the four canonical
\* levels; "high" is stored as the Korean word for high.
C11_MappedLevelStored ==
    (pc \in {"parse_returned", "parse_raised"} /\ HasDocLevel(arg)
     /\ DocLevel(arg) \in DOMAIN RISK_LEVEL_MAP) =>
        /\ ~result.raised
        /\ result.value.risk_profile.overall_risk_level = RISK_LEVEL_MAP[DocLevel(arg)]
        /\ result.value.risk_profile.overall_risk_level \in CanonicalLevels
        /\ DocLevel(arg) = <<"h", "i", "g", "h">> =>
               result.value.risk_profile.overall_risk_level = LevelHigh

\* a Vietnamese key of the vocabulary has been stored as a canonical level
C11_Witness ==
    /\ pc = "parse_returned"
    /\ HasDocLevel(arg)
    /\ DocLevel(arg) = <<"t", "h", "U+1EA5", "p">>
    /\ result.value.risk_profile.overall_risk_level = LevelLow

\* the clauses of the decoded object d, when they are a list
ClausesOf(d) ==
    IF IsDict(d) /\ ~Lacks(d, K.clauses) /\ d.m[K.clauses].t = "arr"
    THEN d.m[K.clauses].a ELSE <<>>

\* C12: a clause whose risk_level is a key of the vocabulary carries the
\* mapped canonical value in the result.
C12_ClauseLevelsMapped ==
    (pc \in {"parse_returned", "parse_raised"}) =>
        \A i \in 1..Len(ClausesOf(arg)) :
            LET c == ClausesOf(arg)[i]
            IN  (IsDict(c) /\ ~Lacks(c, K.risk_level) /\ c.m[K.risk_level].t = "str"
                 /\ c.m[K.risk_level].s \in DOMAIN RISK_LEVEL_MAP) =>
                    /\ ~result.raised
                    /\ result.value.clauses[i].risk_level
                           = JStr(RISK_LEVEL_MAP[c.m[K.risk_level].s])

\* C13: an overall_risk_level that is a str but no key of the vocabulary is
\* stored as it is, and no error is raised.
C13_UnmappedLevelUnchanged ==
    (pc \in {"parse_returned", "parse_raised"} /\ HasDocLevel(arg)
     /\ DocLevel(arg) \notin DOMAIN RISK_LEVEL_MAP) =>
        /\ ~result.raised
        /\ result.value.risk_profile.overall_risk_level = DocLevel(arg)

\* the text a chunk delivers: the texts of its parts one after the other; a
\* chunk without candidates, or whose parts cannot be read, delivers none
RECURSIVE PartsText(_)
PartsText(parts) ==
    IF parts = <<>> THEN <<>>
    ELSE parts[1].text \o PartsText(Tail(parts))

FragmentText(c) == IF c.candidates /\ ~c.broken THEN PartsText(c.parts) ELSE <<>>

HasPayload(c) == FragmentText(c) # <<>>

\* the texts of the fragments of r, concatenated in arrival order
RECURSIVE Assembled(_)
Assembled(r) ==
    IF r = <<>> THEN <<>>
    ELSE FragmentText(r[1]) \o Assembled(Tail(r))

C14_SpecExample == <<ChunkOf(<<TextPart(<<"{", DQ, "a", DQ, ":">>)>>), ChunkOf(<<TextPart(<<SP, "1", "}">>)>>)>>

\* C14: the text assembled from a stream is the concatenation, in arrival
\* order, of the texts of the fragments delivered, so far and at the end;
\* fragments without payload do not change it; and the result of the
\* reconciliation is the one of the concatenation handed over as one string.
C14_AssembledInOrder ==
    pos > 0 =>
        /\ pc = "streaming" => Join(chunks) = Assembled(SubSeq(response, 1, pos - 1))
        /\ pc # "streaming" =>
               /\ raw = Assembled(response)
               /\ raw = Assembled(SelectSeq(response, HasPayload))
        /\ pc \in {"returned", "raised"} =>
               result = Reconcile(Assembled(response), nlp_info)
        /\ (pc = "returned" /\ response = C14_SpecExample) =>
               result = Reconcile(<<"{", DQ, "a", DQ, ":", SP, "1", "}">>, nlp_info)

\* three chunks, one of them without payload, gave an object that was decoded
C14_Witness ==
    /\ pos > 0
    /\ pc = "returned"
    /\ Len(response) = 3
    /\ \E i \in 1..3 : ~HasPayload(response[i])
    /\ \E i \in 1..3 : Len(response[i].parts) > 1
    /\ decoded_by = "first"
    /\ raw # <<>>

(***************************************************************************)
(* analyze_contract with its cache, llm.py 272-345.  The module            *)
(* app.core.cache is modelled from its contract: make_key gives a          *)
(* fingerprint of its argument, get the value set under a key or None,     *)
(* set stores a value under a key.                                         *)
(***************************************************************************)
MakeKey(s) == s

CacheGet(c, k) == IF k \in DOMAIN c THEN c[k] ELSE JNull

CacheSet(c, k, v) == [x \in DOMAIN c \cup {k} |-> IF x = k THEN v ELSE c[x]]

\* llm.py 279
CacheKey(original_text, language) == MakeKey(original_text \o language)

\* a lookup whose value is never used
CacheNeverHit(cached) == FALSE

\* llm.py 281: if cached
CacheHit(cached) == cached # JNull

\* the most calls of analyze_contract in a behaviour
MaxCalls == 3

\* the texts and languages of the requests; "a" + "ko" = "ak" + "o"
CacheTexts == {<<"a">>, <<"a", "k">>}
CacheLanguages == {<<"k", "o">>, <<"o">>}

\* the output_language of the requests (ko, en)
OutputLanguages == {<<"k", "o">>, <<"e", "n">>}

\* the answers of the LLM
LlmAnswers == {<<"{", "}">>, <<"{", DQ, "d", "o", "c", "u", "m", "e", "n", "t", "_", "i", "d", DQ, ":", SP, "1", "}">>, <<"n", "o", SP, "j", "s", "o", "n">>, <<"{", DQ, "m", "e", "t", "a", DQ, ":", SP, "1", "}">>}

NlpOf(language) == [language |-> language, domain_tags |-> <<>>, parties |-> <<>>]

\* the first result returned for each (text, language)
Remember(f, pair, v) ==
    IF pair \in DOMAIN f THEN f
    ELSE [x \in DOMAIN f \cup {pair} |-> IF x = pair THEN v ELSE f[x]]

CacheInit ==
    /\ pc = "idle" /\ raw = <<>> /\ arg = JNull /\ NoStream
    /\ nlp_info = NoNlp
    /\ stripped = <<>>
    /\ repaired = <<>>
    /\ data = JNull
    /\ decoded_by = "none"
    /\ out = <<>>
    /\ out2 = <<>>
    /\ result = NoResult
    /\ NoCalls
    /\ NoDb

\* llm.py 279-282: a call that finds its key in the cache
AnalyzeCached ==
    /\ calls < MaxCalls
    /\ \E text \in CacheTexts, language \in CacheLanguages, output_language \in OutputLanguages :
           LET cached == CacheGet(cache, CacheKey(text, language))
           IN  /\ CacheHit(cached)
               /\ last_call' = [text |-> text, language |-> language,
                                output_language |-> output_language, hit |-> TRUE,
                                answer |-> <<>>, outcome |-> Returned(cached)]
               /\ first_result' = Remember(first_result, <<text, language>>, cached)
    /\ calls' = calls + 1
    /\ UNCHANGED <<callVars, streamVars, cache, prompts, llm_calls, made_for, dbVars>>

\* llm.py 279-345: a call that does not: the prompt is built, the LLM answers,
\* the answer is reconciled and the result is set in the cache and returned,
\* unless _safe_parse_document_result raised
AnalyzeFresh ==
    /\ calls < MaxCalls
    /\ \E text \in CacheTexts, language \in CacheLanguages, output_language \in OutputLanguages, answer \in LlmAnswers :
           LET key == CacheKey(text, language)
               r == Reconcile(answer, NlpOf(language))
           IN  /\ ~CacheHit(CacheGet(cache, key))
               /\ last_call' = [text |-> text, language |-> language,
                                output_language |-> output_language, hit |-> FALSE,
                                answer |-> answer, outcome |-> r]
               /\ cache' = IF r.raised THEN cache ELSE CacheSet(cache, key, r.value)
               /\ made_for' = IF r.raised THEN made_for ELSE CacheSet(made_for, key, output_language)
               /\ first_result' = IF r.raised THEN first_result
                                  ELSE Remember(first_result, <<text, language>>, r.value)
    /\ prompts' = prompts + 1
    /\ llm_calls' = llm_calls + 1
    /\ calls' = calls + 1
    /\ UNCHANGED <<callVars, streamVars, dbVars>>

CacheNext ==
    \/ AnalyzeCached
    \/ AnalyzeFresh

CacheSpec == CacheInit /\ [][CacheNext]_vars

\* C15: once analyze_contract has returned a result for a text and a
\* language, a later call with that text and language returns that result
\* and builds no prompt and calls no LLM; a value in the cache stays as it is.
C15_CachedResultReused ==
    [][/\ \A pair \in DOMAIN first_result :
              (calls' = calls + 1 /\ <<last_call'.text, last_call'.language>> = pair) =>
                  /\ last_call'.outcome = Returned(first_result[pair])
                  /\ prompts' = prompts
                  /\ llm_calls' = llm_calls
       /\ \A k \in DOMAIN cache : k \in DOMAIN cache' /\ cache'[k] = cache[k]]_vars

\* a third call was answered from the cache after one call of the LLM
C15_Witness ==
    /\ calls = 3
    /\ llm_calls = 1
    /\ last_call.hit
    /\ <<last_call.text, last_call.language>> \in DOMAIN first_result
    /\ last_call.outcome = Returned(first_result[<<last_call.text, last_call.language>>])

StepOutputs(x) ==
    LET a == Strip(x)
        b == IF RFind(a, "}") # -1 THEN CutAtLastBrace(x) ELSE a
        c1 == StripCommas(b)
        c2 == StripCommas(c1)
        c3 == StripCommas(c2)
        d == IF Deficit(c3) > 0 THEN c3 \o Braces(Deficit(c3)) ELSE c3
    IN  <<a, b, c1, c2, c3, d>>

StepNames == <<"asis", "truncate", "commas", "commas", "commas", "braces">>

\* the index of the earliest output that parses, 0 when none does
EarliestSuccess(x) ==
    LET ok == {i \in 1..6 : Parses(StepOutputs(x)[i])}
    IN  IF ok = {} THEN 0 ELSE CHOOSE i \in ok : \A j \in ok : i <= j

\* C17: _repair_json returns the output of the earliest heuristic, in the
\* order (a) as is, (b) cut at the last "}", (c) commas stripped, (d) braces
\* appended, whose output parses, by the return statement of that heuristic;
\* when none parses it returns its argument.
C17_EarliestSuccessReturned ==
    (pc = "repair_returned" /\ raw # <<>>) =>
        LET e == EarliestSuccess(raw)
        IN  /\ e # 0 => /\ out = StepOutputs(raw)[e]
                        /\ RepairJsonRun(raw).step = StepNames[e]
            /\ e = 0 => /\ out = raw
                        /\ RepairJsonRun(raw).step = "failed"

\* the second pass of comma stripping was the first heuristic to succeed
C17_Witness ==
    /\ pc = "repair_returned"
    /\ EarliestSuccess(raw) = 4
    /\ out = StepOutputs(raw)[4]
    /\ out # StepOutputs(raw)[3]

\* x from its first "{" on, without the whitespace at its end and without a
\* closing fence there
FromFirstBrace(x) ==
    LET u == RStrip(SubSeq(x, Find(x, "{") + 1, Len(x)))
    IN  IF EndsWith(u, Fence) THEN RStrip(SubSeq(u, 1, Len(u) - 3)) ELSE u

\* C18: for a text that contains a "{", _strip_to_json returns a text that
\* begins with "{": the input from its first "{" on, less a closing fence
\* and the whitespace around.
C18_FromFirstBrace ==
    (pc = "stripped" /\ Find(raw, "{") # -1) =>
        /\ stripped # <<>>
        /\ stripped[1] = "{"
        /\ stripped = FromFirstBrace(raw)

\* prose and an opening fence before the "{", a closing fence after the object
C18_Witness ==
    /\ pc = "stripped"
    /\ Find(raw, "{") > Len(FenceOpen)
    /\ raw[1] # BQ
    /\ EndsWith(Strip(raw), Fence)
    /\ IsObjectText(stripped)
    /\ stripped = FromFirstBrace(raw)

\* the two decode attempts of analyze_contract on the repaired text
FirstDecode == JsonLoads(repaired)

SecondDecode ==
    IF RFind(repaired, "}") # -1
    THEN JsonLoads(SubSeq(repaired, 1, RFind(repaired, "}") + 1))
    ELSE ParseFail

\* C19 as stated: the value of the first decode is used when it succeeds,
\* else the value of the decode of the text up to the last "}" when there is
\* one and it succeeds; the fallback is used exactly when both fail; the
\* result is materialized from the value chosen.
C19_FallbackIffBothFail ==
    (pc \in {"decoded", "returned", "raised"}) =>
        /\ FirstDecode.ok => data = FirstDecode.val
        /\ (~FirstDecode.ok /\ SecondDecode.ok) => data = SecondDecode.val
        /\ (decoded_by = "fallback") <=> (~FirstDecode.ok /\ ~SecondDecode.ok)
        /\ decoded_by = "fallback" => data = FallbackData(nlp_info)
        /\ pc # "decoded" => result = SafeParseDocumentResult(data)

\* a decode attempt yields a value when it succeeds with a value other than null
Yields(d) == d.ok /\ d.val # JNull

\* C19, amended: the value of the first decode is used when it yields one
\* other than null, else the value of the decode of the text up to the last
\* "}"; the fallback is used exactly when neither attempt yields a value
\* other than null; the value chosen is the one handed to
\* _safe_parse_document_result.
C19_FallbackIffNoValue ==
    (pc \in {"decoded", "returned", "raised"}) =>
        /\ Yields(FirstDecode) => data = FirstDecode.val /\ decoded_by = "first"
        /\ (~Yields(FirstDecode) /\ Yields(SecondDecode)) =>
               data = SecondDecode.val /\ decoded_by = "retry"
        /\ (decoded_by = "fallback") <=> (~Yields(FirstDecode) /\ ~Yields(SecondDecode))
        /\ decoded_by = "fallback" => data = FallbackData(nlp_info)
        /\ pc # "decoded" => result = SafeParseDocumentResult(data)

\* the answer null was decoded and the fallback returned
C19_Witness ==
    /\ pc = "returned"
    /\ FirstDecode.ok
    /\ FirstDecode.val = JNull
    /\ decoded_by = "fallback"
    /\ data = FallbackData(nlp_info)

\* a list of texts as the list of str it is in the result
StrList(l) == JArr([k \in 1..Len(l) |-> JStr(l[k])])

\* "AI analysis error" and "LLM response parsing failed.", in Korean
FailureTitle == <<"A", "I", SP, "U+BD84", "U+C11D", SP, "U+C624", "U+B958">>
FailureText == <<"L", "L", "M", SP, "U+C751", "U+B2F5", SP, "U+D30C", "U+C2F1", SP, "U+C2E4", "U+D328", ".">>

\* C20: when the fallback is used a record is returned whose meta holds the
\* language, domain tags and parties of nlp_info, whose risk level is the
\* Korean word for medium with score 50 and no dimensions, whose summary title
\* and text say that parsing failed and whose summary lists are empty.
C20_FallbackRecord ==
    (pc \in {"returned", "raised"} /\ decoded_by = "fallback") =>
        /\ pc = "returned"
        /\ result.value.meta.language = JStr(nlp_info.language)
        /\ result.value.meta.domain_tags = StrList(nlp_info.domain_tags)
        /\ result.value.meta.parties = StrList(nlp_info.parties)
        /\ result.value.risk_profile.overall_risk_level = LevelMedium
        /\ result.value.risk_profile.overall_risk_score = 50
        /\ DOMAIN result.value.risk_profile.risk_dimensions = {}
        /\ result.value.summary.title = JStr(FailureTitle)
        /\ result.value.summary.overall_summary = JStr(FailureText)
        /\ \A f \in SummaryLists : result.value.summary[f] = EmptyList

\* the fallback was returned for a request with domain tags and parties
C20_Witness ==
    /\ pc = "returned"
    /\ decoded_by = "fallback"
    /\ nlp_info.language = <<"e", "n">>
    /\ Len(nlp_info.parties) = 2
    /\ result.value.meta.parties = StrList(nlp_info.parties)
    /\ raw # <<>>

\* where a text ends: inside a string, directly inside an array, directly
\* inside an object, or outside every container; closers counts the "}"
\* met outside a string
RECURSIVE CutScan(_, _, _, _, _)
CutScan(x, i, inString, stack, closers) ==
    IF i > Len(x)
    THEN [where |-> IF inString THEN "string"
                    ELSE IF stack = <<>> THEN "outside"
                    ELSE IF stack[Len(stack)] = "[" THEN "array" ELSE "object",
          closers |-> closers]
    ELSE IF x[i] = DQ THEN CutScan(x, i + 1, ~inString, stack, closers)
    ELSE IF inString THEN CutScan(x, i + 1, inString, stack, closers)
    ELSE IF x[i] \in {"{", "["} THEN CutScan(x, i + 1, inString, Append(stack, x[i]), closers)
    ELSE IF x[i] \in {"}", "]"} /\ stack # <<>>
         THEN CutScan(x, i + 1, inString, SubSeq(stack, 1, Len(stack) - 1),
                      closers + (IF x[i] = "}" THEN 1 ELSE 0))
    ELSE CutScan(x, i + 1, inString, stack, closers)

CutOf(x) == CutScan(x, 1, FALSE, <<>>, 0)

\* the raw text is an object text cut off in the middle of an array or of a string
CutMidValue == raw \in Truncated /\ CutOf(raw).where \in {"array", "string"}

C21_WitnessString ==
    /\ pc = "returned"
    /\ CutMidValue
    /\ CutOf(raw).where = "string"
    /\ CutOf(raw).closers = 0
    /\ decoded_by = "fallback"

\* C22: a result that analyze_contract serves from the cache was set there
\* by a call with the output_language of the call it is served to.
C22_CachedForSameOutputLanguage ==
    last_call.hit =>
        made_for[CacheKey(last_call.text, last_call.language)] = last_call.output_language

\* the call before was not answered from the cache and its answer ended in
\* the fallback data
ParseFailed(call) ==
    /\ ~call.hit
    /\ call.outcome # NoResult
    /\ DecodeOrFallback(RepairJson(StripToJson(call.answer)), NlpOf(call.language)).by = "fallback"

\* C23: the call that follows a call whose answer could not be parsed, with
\* the same text and language, calls the LLM again.
C23_FailureNotSticky ==
    [][(/\ ParseFailed(last_call)
        /\ calls' = calls + 1
        /\ last_call'.text = last_call.text
        /\ last_call'.language = last_call.language) => llm_calls' = llm_calls + 1]_vars

(***************************************************************************)
(* The stored analyses: routes/contract_routes.py and                      *)
(* services/document_service.py over the tables documents, clauses and     *)
(* terms.  A row is a record; a table is the set of its committed rows.    *)
(* Every handler runs in a session of its own (get_db), so a handler sees  *)
(* the rows committed so far, and what it commits is seen by the handlers  *)
(* that read afterwards.  The async handler of /contracts/analyze runs on  *)
(* the event loop and the def handlers on the thread pool, so a commit of  *)
(* one handler can fall between two commits of another.  The engine of     *)
(* db/database.py is an SQLite engine on which foreign keys are not        *)
(* switched on: a row may be inserted whatever its document_id.            *)
(***************************************************************************)
\* the most requests in a behaviour
MaxRequests == 3

\* the ids of the users that send requests (current_user.id)
UserIds == {1, 2}

\* the number of clauses and of terms of an analysis
ClauseCounts == {0, 2}
TermCounts == {1}

\* the document ids a request can name
DocumentIds == 1..MaxRequests

\* db with the rows of table t replaced by rows
WithTable(d, t, rows) == [d EXCEPT ![t] = rows]

\* the response to request n
Response(n, route, user, id, status, ids, flag) == [n |-> n, route |-> route, user |-> user, id |-> id, status |-> status, ids |-> ids, flag |-> flag, token |-> 0]

\* a lookup by id alone, whoever owns the document
AnyDocument(documents, document_id, user_id) == {d \in documents : d.id = document_id}

\* contract_routes.py 132-135, 162-165, 196-199, 227-230, 254-257:
\* query(Document).filter(id == document_id, user_id == current_user.id).first()
OwnedDocument(documents, document_id, user_id) == {d \in documents : d.id = document_id /\ d.user_id = user_id}

\* document_service.py 154-158: the user filter is applied when user_id is truthy
ServiceDocument(documents, document_id, user_id) == {d \in documents : d.id = document_id /\ (user_id # 0 => d.user_id = user_id)}

\* contract_routes.py 236-237, document_service.py 162-163: the rows of
\* clauses and terms with this document_id are deleted
WithoutChildren(d, document_id) == [d EXCEPT !.clauses = {c \in d.clauses : c.document_id # document_id}, !.terms = {t \in d.terms : t.document_id # document_id}]

\* document_service.py 67-86 in analyze_full_contract (contract_routes.py
\* 80-86): the Document row is added and committed, doc.id is read back
SaveDocumentBegin ==
    /\ seq.request < MaxRequests
    /\ \E u \in UserIds, nc \in ClauseCounts, nt \in TermCounts :
           LET id == seq.documents + 1
               n == seq.request + 1
           IN  /\ db' = WithTable(db, "documents", db.documents \cup {[id |-> id, user_id |-> u, is_favorite |-> FALSE]})
               /\ seq' = [seq EXCEPT !.documents = id, !.request = n]
               /\ reqs' = reqs \cup {[n |-> n, route |-> "analyze", user |-> u, id |-> id, clauses |-> nc, terms |-> nt]}
    /\ UNCHANGED <<callVars, streamVars, cacheVars, http>>

\* document_service.py 91-117 and contract_routes.py 89-94: the Clause and
\* Term rows are added with document_id = doc.id and committed; the response
SaveDocumentChildren ==
    /\ \E r \in reqs :
           /\ r.route = "analyze"
           /\ db' = [db EXCEPT !.clauses = @ \cup {[id |-> seq.clauses + k, document_id |-> r.id] : k \in 1..r.clauses},
                               !.terms = @ \cup {[id |-> seq.terms + k, document_id |-> r.id] : k \in 1..r.terms}]
           /\ seq' = [seq EXCEPT !.clauses = @ + r.clauses, !.terms = @ + r.terms]
           /\ reqs' = reqs \ {r}
           /\ http' = Response(r.n, "analyze", r.user, r.id, 200, {}, FALSE)
    /\ UNCHANGED <<callVars, streamVars, cacheVars>>

\* a request that reads: the handler, given what it found, answers
\* contract_routes.py 100-120
ListAllDocuments ==
    /\ seq.request < MaxRequests
    /\ \E u \in UserIds :
           http' = Response(seq.request + 1, "list", u, 0, 200, {d.id : d \in {x \in db.documents : x.user_id = u}}, FALSE)
    /\ seq' = [seq EXCEPT !.request = @ + 1]
    /\ UNCHANGED <<callVars, streamVars, cacheVars, db, reqs>>

\* contract_routes.py 126-151
GetDocumentDetail ==
    /\ seq.request < MaxRequests
    /\ \E u \in UserIds, document_id \in DocumentIds :
           LET doc == OwnedDocument(db.documents, document_id, u)
           IN  http' = IF doc = {} THEN Response(seq.request + 1, "detail", u, document_id, 404, {}, FALSE)
                       ELSE Response(seq.request + 1, "detail", u, document_id, 200, {document_id}, (CHOOSE d \in doc : TRUE).is_favorite)
    /\ seq' = [seq EXCEPT !.request = @ + 1]
    /\ UNCHANGED <<callVars, streamVars, cacheVars, db, reqs>>

\* contract_routes.py 155-183
GetDocumentClauses ==
    /\ seq.request < MaxRequests
    /\ \E u \in UserIds, document_id \in DocumentIds :
           LET doc == OwnedDocument(db.documents, document_id, u)
           IN  http' = IF doc = {} THEN Response(seq.request + 1, "clauses", u, document_id, 404, {}, FALSE)
                       ELSE Response(seq.request + 1, "clauses", u, document_id, 200, {c.id : c \in {x \in db.clauses : x.document_id = document_id}}, FALSE)
    /\ seq' = [seq EXCEPT !.request = @ + 1]
    /\ UNCHANGED <<callVars, streamVars, cacheVars, db, reqs>>

\* contract_routes.py 189-215
GetDocumentTerms ==
    /\ seq.request < MaxRequests
    /\ \E u \in UserIds, document_id \in DocumentIds :
           LET doc == OwnedDocument(db.documents, document_id, u)
           IN  http' = IF doc = {} THEN Response(seq.request + 1, "terms", u, document_id, 404, {}, FALSE)
                       ELSE Response(seq.request + 1, "terms", u, document_id, 200, {t.id : t \in {x \in db.terms : x.document_id = document_id}}, FALSE)
    /\ seq' = [seq EXCEPT !.request = @ + 1]
    /\ UNCHANGED <<callVars, streamVars, cacheVars, db, reqs>>

\* contract_routes.py 221-242
DeleteContract ==
    /\ seq.request < MaxRequests
    /\ \E u \in UserIds, document_id \in DocumentIds :
           LET doc == OwnedDocument(db.documents, document_id, u)
           IN  IF doc = {}
               THEN /\ http' = Response(seq.request + 1, "delete", u, document_id, 404, {}, FALSE)
                    /\ db' = db
               ELSE /\ http' = Response(seq.request + 1, "delete", u, document_id, 200, {document_id}, FALSE)
                    /\ db' = WithTable(WithoutChildren(db, document_id), "documents", db.documents \ doc)
    /\ seq' = [seq EXCEPT !.request = @ + 1]
    /\ UNCHANGED <<callVars, streamVars, cacheVars, reqs>>

\* document_service.py 153-167; user_id 0 stands for None.  flag is the
\* value returned.
DeleteDocument ==
    /\ seq.request < MaxRequests
    /\ \E user_id \in UserIds \cup {0}, document_id \in DocumentIds :
           LET doc == ServiceDocument(db.documents, document_id, user_id)
           IN  IF doc = {}
               THEN /\ http' = Response(seq.request + 1, "delete_document", user_id, document_id, 0, {}, FALSE)
                    /\ db' = db
               ELSE /\ http' = Response(seq.request + 1, "delete_document", user_id, document_id, 0, {document_id}, TRUE)
                    /\ db' = WithTable(WithoutChildren(db, document_id), "documents", db.documents \ doc)
    /\ seq' = [seq EXCEPT !.request = @ + 1]
    /\ UNCHANGED <<callVars, streamVars, cacheVars, reqs>>

\* contract_routes.py 248-270
ToggleFavorite ==
    /\ seq.request < MaxRequests
    /\ \E u \in UserIds, document_id \in DocumentIds :
           LET doc == OwnedDocument(db.documents, document_id, u)
               d == CHOOSE x \in doc : TRUE
           IN  IF doc = {}
               THEN /\ http' = Response(seq.request + 1, "favorite", u, document_id, 404, {}, FALSE)
                    /\ db' = db
               ELSE /\ http' = Response(seq.request + 1, "favorite", u, document_id, 200, {document_id}, ~d.is_favorite)
                    /\ db' = WithTable(db, "documents", (db.documents \ doc) \cup {[d EXCEPT !.is_favorite = ~d.is_favorite]})
    /\ seq' = [seq EXCEPT !.request = @ + 1]
    /\ UNCHANGED <<callVars, streamVars, cacheVars, reqs>>

DocInit == CacheInit

DocNext ==
    \/ SaveDocumentBegin
    \/ SaveDocumentChildren
    \/ ListAllDocuments
    \/ GetDocumentDetail
    \/ GetDocumentClauses
    \/ GetDocumentTerms
    \/ DeleteContract
    \/ DeleteDocument
    \/ ToggleFavorite

DocSpec == DocInit /\ [][DocNext]_vars

\* C24: every Clause row and every Term row refers to a Document row that
\* exists, whatever the sequence and interleaving of save_document,
\* delete_contract and delete_document.
C24_ReferentialIntegrity ==
    /\ \A c \in db.clauses : \E d \in db.documents : d.id = c.document_id
    /\ \A t \in db.terms : \E d \in db.documents : d.id = t.document_id

\* the document a request names and the user that owns it, or 0
OwnerOf(document_id) == IF \E d \in db.documents : d.id = document_id THEN (CHOOSE d \in db.documents : d.id = document_id).user_id ELSE 0

IdRoutes == {"detail", "clauses", "terms", "delete", "favorite"}

\* C25: a request of a contract route that names a document the caller does
\* not own is answered 404 and changes no row; /contracts/list returns the
\* ids of the caller's documents and no other.
C25_OwnershipIsolation ==
    [][/\ (http'.n # http.n /\ http'.route \in IdRoutes /\ OwnerOf(http'.id) # http'.user) =>
              (http'.status = 404 /\ db' = db)
       /\ (http'.n # http.n /\ http'.route = "list") =>
              (/\ \A d \in db.documents : d.id \in http'.ids <=> d.user_id = http'.user
               /\ \A i \in http'.ids : \E d \in db.documents : d.id = i)]_vars

\* a user has asked to delete a document with clauses that another user owns
\* and got 404, the document and its clauses being still there
C25_Witness ==
    /\ http.route = "delete"
    /\ http.status = 404
    /\ OwnerOf(http.id) \notin {0, http.user}
    /\ \E c \in db.clauses : c.document_id = http.id

(***************************************************************************)
(* The conversations: routes/legal.py over the tables conversations,       *)
(* bookmarks and share_links.  ask_legal_question is async and commits     *)
(* twice around the call of the LLM; the other handlers are def handlers   *)
(* run on the thread pool: what a handler read can be out of date when it  *)
(* commits.  The classes Conversation, Bookmark and ShareLink are declared *)
(* in app/db/models.py; the model takes the columns the handlers use and   *)
(* no constraint beyond the primary key.                                   *)
(***************************************************************************)
\* the conversation ids a request can name
ConversationIds == {1, 2}

\* what the commit of a new row can do when the table holds a row of the same
\* key already: the tables are declared in app/db/models.py, with a unique
\* constraint on the key (the commit raises IntegrityError) or without
InsertOutcomes(duplicate) == IF duplicate THEN {"inserted", "IntegrityError"} ELSE {"inserted"}

\* legal.py 197-200 and 180-183: the Bookmark rows of the user and the conversation
BookmarkOf(bookmarks, user_id, conversation_id) == {b \in bookmarks : b.user_id = user_id /\ b.conversation_id = conversation_id}

\* legal.py 231-233: the ShareLink rows of the conversation
ShareLinkOf(share_links, conversation_id) == {l \in share_links : l.conversation_id = conversation_id}

\* llm.py 437-455: generate_legal_answer_multilang returns response.text, or,
\* when the call of the LLM raised, the error message of the language
GenerateLegalAnswer(llm) == IF llm = "failed" THEN "error_message" ELSE "answer"

\* legal.py 119-127: the Conversation row is added with status "pending" and committed
AskBegin ==
    /\ seq.request < MaxRequests
    /\ \E u \in UserIds :
           LET id == seq.conversations + 1
               n == seq.request + 1
           IN  /\ db' = WithTable(db, "conversations", db.conversations \cup {[id |-> id, user_id |-> u, status |-> "pending", answer |-> "none"]})
               /\ seq' = [seq EXCEPT !.conversations = id, !.request = n]
               /\ reqs' = reqs \cup {[n |-> n, route |-> "ask", user |-> u, id |-> id, found |-> {}]}
    /\ UNCHANGED <<callVars, streamVars, cacheVars, http>>

\* legal.py 129-145: the answer is generated and stored with status
\* "completed".  When generate_legal_answer_multilang raises, or the commit
\* does (the row was deleted meanwhile), the except branch stores "error"
\* and the request is answered 500; with the row gone that commit fails too.
AskFinish ==
    /\ \E r \in reqs, llm \in {"answered", "failed"} :
           LET row == {c \in db.conversations : c.id = r.id}
               answer == GenerateLegalAnswer(llm)
               stored == IF answer = "raised"
                         THEN [id |-> r.id, user_id |-> r.user, status |-> "error", answer |-> "Error"]
                         ELSE [id |-> r.id, user_id |-> r.user, status |-> "completed", answer |-> answer]
           IN  /\ r.route = "ask"
               /\ db' = IF row = {} THEN db ELSE WithTable(db, "conversations", (db.conversations \ row) \cup {stored})
               /\ http' = Response(r.n, "ask", r.user, r.id, IF row = {} \/ answer = "raised" THEN 500 ELSE 200, {}, llm = "answered")
               /\ reqs' = reqs \ {r}
    /\ UNCHANGED <<callVars, streamVars, cacheVars, seq>>

\* legal.py 174-184
IsBookmarked ==
    /\ seq.request < MaxRequests
    /\ \E u \in UserIds, conversation_id \in ConversationIds :
           http' = Response(seq.request + 1, "is_bookmarked", u, conversation_id, 200, {}, BookmarkOf(db.bookmarks, u, conversation_id) # {})
    /\ seq' = [seq EXCEPT !.request = @ + 1]
    /\ UNCHANGED <<callVars, streamVars, cacheVars, db, reqs>>

\* legal.py 164-171: the conversations joined to the caller's bookmarks
GetBookmarks ==
    /\ seq.request < MaxRequests
    /\ \E u \in UserIds :
           http' = Response(seq.request + 1, "bookmarks", u, 0, 200, {c.id : c \in {x \in db.conversations : \E b \in db.bookmarks : b.user_id = u /\ b.conversation_id = x.id}}, FALSE)
    /\ seq' = [seq EXCEPT !.request = @ + 1]
    /\ UNCHANGED <<callVars, streamVars, cacheVars, db, reqs>>

\* legal.py 197-200: the query; first() gives one of the rows found, or None
ToggleBookmarkRead ==
    /\ seq.request < MaxRequests
    /\ \E u \in UserIds, conversation_id \in ConversationIds :
           LET rows == BookmarkOf(db.bookmarks, u, conversation_id)
           IN  \E found \in (IF rows = {} THEN {{}} ELSE {{b} : b \in rows}) :
                   reqs' = reqs \cup {[n |-> seq.request + 1, route |-> "toggle", user |-> u, id |-> conversation_id, found |-> found]}
    /\ seq' = [seq EXCEPT !.request = @ + 1]
    /\ UNCHANGED <<callVars, streamVars, cacheVars, db, http>>

\* legal.py 202-212: the row found is deleted, or a row is added; commit.
\* An IntegrityError of the commit is not caught: the request is answered 500.
ToggleBookmarkCommit ==
    /\ \E r \in reqs :
           /\ r.route = "toggle"
           /\ IF r.found # {}
              THEN /\ db' = WithTable(db, "bookmarks", db.bookmarks \ r.found)
                   /\ seq' = seq
                   /\ http' = Response(r.n, "toggle", r.user, r.id, 200, {}, FALSE)
              ELSE \E outcome \in InsertOutcomes(BookmarkOf(db.bookmarks, r.user, r.id) # {}) :
                       IF outcome = "inserted"
                       THEN /\ db' = WithTable(db, "bookmarks", db.bookmarks \cup {[id |-> seq.bookmarks + 1, user_id |-> r.user, conversation_id |-> r.id]})
                            /\ seq' = [seq EXCEPT !.bookmarks = @ + 1]
                            /\ http' = Response(r.n, "toggle", r.user, r.id, 200, {}, TRUE)
                       ELSE /\ db' = db
                            /\ seq' = seq
                            /\ http' = Response(r.n, "toggle", r.user, r.id, 500, {}, FALSE)
           /\ reqs' = reqs \ {r}
    /\ UNCHANGED <<callVars, streamVars, cacheVars>>

\* legal.py 224-236: 404 without the conversation; the token of the link
\* found is returned; without a link the handler goes on to add one
CreateShareLinkRead ==
    /\ seq.request < MaxRequests
    /\ \E conversation_id \in ConversationIds :
           LET n == seq.request + 1
               conversation == {c \in db.conversations : c.id = conversation_id}
               links == ShareLinkOf(db.share_links, conversation_id)
           IN  IF conversation = {}
               THEN /\ http' = Response(n, "share", 0, conversation_id, 404, {}, FALSE)
                    /\ reqs' = reqs
               ELSE IF links # {}
               THEN /\ \E existing \in links : http' = [Response(n, "share", 0, conversation_id, 200, {}, FALSE) EXCEPT !.token = existing.token]
                    /\ reqs' = reqs
               ELSE /\ http' = http
                    /\ reqs' = reqs \cup {[n |-> n, route |-> "share", user |-> 0, id |-> conversation_id, found |-> {}]}
    /\ seq' = [seq EXCEPT !.request = @ + 1]
    /\ UNCHANGED <<callVars, streamVars, cacheVars, db>>

\* legal.py 238-242: a new token is drawn, the ShareLink row added and
\* committed.  An IntegrityError of the commit is not caught.
CreateShareLinkCommit ==
    /\ \E r \in reqs :
           LET token == seq.token + 1
           IN  /\ r.route = "share"
               /\ \E outcome \in InsertOutcomes(ShareLinkOf(db.share_links, r.id) # {}) :
                      IF outcome = "inserted"
                      THEN /\ db' = WithTable(db, "share_links", db.share_links \cup {[id |-> seq.share_links + 1, conversation_id |-> r.id, token |-> token]})
                           /\ seq' = [seq EXCEPT !.share_links = @ + 1, !.token = token]
                           /\ http' = [Response(r.n, "share", 0, r.id, 200, {}, FALSE) EXCEPT !.token = token]
                      ELSE /\ db' = db
                           /\ seq' = [seq EXCEPT !.token = token]
                           /\ http' = Response(r.n, "share", 0, r.id, 500, {}, FALSE)
               /\ reqs' = reqs \ {r}
    /\ UNCHANGED <<callVars, streamVars, cacheVars>>

\* legal.py 245-254: 404 without a link of the token; else the conversation
\* of the link, ids being empty when the query gives None
GetShared ==
    /\ seq.request < MaxRequests
    /\ \E token \in 1..MaxRequests :
           LET n == seq.request + 1
               links == {l \in db.share_links : l.token = token}
           IN  IF links = {}
               THEN http' = [Response(n, "shared", 0, 0, 404, {}, FALSE) EXCEPT !.token = token]
               ELSE \E link \in links :
                        http' = [Response(n, "shared", 0, link.conversation_id, 200, {c.id : c \in {x \in db.conversations : x.id = link.conversation_id}}, FALSE) EXCEPT !.token = token]
    /\ seq' = [seq EXCEPT !.request = @ + 1]
    /\ UNCHANGED <<callVars, streamVars, cacheVars, db, reqs>>

\* legal.py 277-293: the caller's conversation is deleted.  What becomes of
\* its Bookmark and ShareLink rows is set by the relationships of
\* app/db/models.py: they go with it (cascade) or they stay.
DeleteConversation ==
    /\ seq.request < MaxRequests
    /\ \E u \in UserIds, conversation_id \in ConversationIds, cascade \in BOOLEAN :
           LET conv == {c \in db.conversations : c.id = conversation_id /\ c.user_id = u}
           IN  IF conv = {}
               THEN /\ http' = Response(seq.request + 1, "delete_conversation", u, conversation_id, 404, {}, FALSE)
                    /\ db' = db
               ELSE /\ http' = Response(seq.request + 1, "delete_conversation", u, conversation_id, 200, {}, cascade)
                    /\ db' = [db EXCEPT !.conversations = @ \ conv,
                                        !.bookmarks = IF cascade THEN {b \in @ : b.conversation_id # conversation_id} ELSE @,
                                        !.share_links = IF cascade THEN {l \in @ : l.conversation_id # conversation_id} ELSE @]
    /\ seq' = [seq EXCEPT !.request = @ + 1]
    /\ UNCHANGED <<callVars, streamVars, cacheVars, reqs>>

ConvInit == CacheInit

ConvNext ==
    \/ AskBegin
    \/ AskFinish
    \/ IsBookmarked
    \/ GetBookmarks
    \/ ToggleBookmarkRead
    \/ ToggleBookmarkCommit
    \/ CreateShareLinkRead
    \/ CreateShareLinkCommit
    \/ GetShared
    \/ DeleteConversation

ConvSpec == ConvInit /\ [][ConvNext]_vars

\* there is at most one Bookmark row per user and conversation
AtMostOneBookmark ==
    \A a \in db.bookmarks, b \in db.bookmarks :
        (a.user_id = b.user_id /\ a.conversation_id = b.conversation_id) => a = b

\* the value a toggle returns says whether the pair has a row after its commit
ToggleTellsRow ==
    (http'.n # http.n /\ http'.route = "toggle" /\ http'.status = 200) =>
        (http'.flag <=> BookmarkOf(db'.bookmarks, http'.user, http'.id) # {})

\* C26: after any toggle_bookmark calls, concurrent ones included, a user and
\* a conversation have at most one Bookmark row, and is_bookmarked as
\* returned by a call says whether the row exists once the call has committed.
C26_OneBookmarkPerPair == []AtMostOneBookmark /\ [][ToggleTellsRow]_vars

\* there is at most one ShareLink row per conversation
AtMostOneShareLink ==
    \A a \in db.share_links, b \in db.share_links : a.conversation_id = b.conversation_id => a = b

\* a call answered 200 returns the token of every link of the conversation;
\* a call that finds no conversation (it answers at once: reqs' = reqs) is
\* answered 404 and adds no row
ShareTellsToken ==
    (http'.n # http.n /\ http'.route = "share") =>
        /\ http'.status = 200 => \A l \in ShareLinkOf(db'.share_links, http'.id) : l.token = http'.token
        /\ (reqs' = reqs /\ \A c \in db.conversations : c.id # http'.id) => (http'.status = 404 /\ db' = db)

\* C27: create_share_link leaves at most one ShareLink row per conversation,
\* concurrent calls included, every call returns the token of that row, and
\* a call for a conversation that does not exist returns 404 and adds no row.
C27_OneLinkPerConversation == []AtMostOneShareLink /\ [][ShareTellsToken]_vars

\* C29: a conversation whose /ask handler has finished is not "pending"; it
\* is "completed" only with an answer of the LLM; when the generation of the
\* answer failed the request is answered 500 and the status stored is "error".
C29_StatusLifecycle ==
    /\ \A c \in db.conversations :
           /\ (\A r \in reqs : r.route = "ask" => r.id # c.id) => c.status # "pending"
           /\ c.status = "completed" => c.answer = "answer"
    /\ (http.route = "ask" /\ ~http.flag) =>
           /\ http.status = 500
           /\ \A c \in db.conversations : c.id = http.id => c.status = "error"

\* the ids of the conversations that were deleted
DeletedConversations == {id \in 1..seq.conversations : \A c \in db.conversations : c.id # id}

\* C30: no Bookmark or ShareLink row refers to a conversation that was
\* deleted, and get_shared, given the token of a ShareLink row, returns a
\* conversation and not null.
C30_NoRowOfDeletedConversation ==
    /\ \A id \in DeletedConversations :
           /\ \A b \in db.bookmarks : b.conversation_id # id
           /\ \A l \in db.share_links : l.conversation_id # id
    /\ (http.route = "shared" /\ http.status = 200) => http.ids # {}

(***************************************************************************)
(* get_current_user, deps/auth.py 63-105, over the table users.  It is a   *)
(* def dependency, run on the thread pool once per request.                *)
(***************************************************************************)
\* the bearer tokens sent: verified tells whether verify_id_token accepts
\* the token, uid is the uid of the decoded token, 0 when it has none
Tokens == {[verified |-> FALSE, uid |-> 0], [verified |-> TRUE, uid |-> 0], [verified |-> TRUE, uid |-> 1], [verified |-> TRUE, uid |-> 2]}

\* auth.py 78-88: the token is verified and carries a uid
Accepted(token) == token.verified /\ token.uid # 0

\* auth.py 91: the User rows of the uid
UserOf(users, firebase_uid) == {u \in users : u.open_id = firebase_uid}

\* auth.py 73-91: 401 for a token that is not accepted; the user found is
\* returned; without one the dependency goes on to create it
GetCurrentUserRead ==
    /\ seq.request < MaxRequests
    /\ \E token \in Tokens :
           LET n == seq.request + 1
               found == UserOf(db.users, token.uid)
           IN  IF ~Accepted(token)
               THEN /\ http' = Response(n, "auth", 0, token.uid, 401, {}, token.verified)
                    /\ reqs' = reqs
               ELSE IF found # {}
               THEN /\ \E user \in found : http' = Response(n, "auth", user.id, token.uid, 200, {}, TRUE)
                    /\ reqs' = reqs
               ELSE /\ http' = http
                    /\ reqs' = reqs \cup {[n |-> n, route |-> "auth", user |-> 0, id |-> token.uid, found |-> {}]}
    /\ seq' = [seq EXCEPT !.request = @ + 1]
    /\ UNCHANGED <<callVars, streamVars, cacheVars, db>>

\* auth.py 94-105: the User row is added and committed, and returned.  An
\* IntegrityError of the commit is not caught.
GetCurrentUserCreate ==
    /\ \E r \in reqs :
           /\ r.route = "auth"
           /\ \E outcome \in InsertOutcomes(UserOf(db.users, r.id) # {}) :
                  IF outcome = "inserted"
                  THEN /\ db' = WithTable(db, "users", db.users \cup {[id |-> seq.users + 1, open_id |-> r.id]})
                       /\ seq' = [seq EXCEPT !.users = @ + 1]
                       /\ http' = Response(r.n, "auth", seq.users + 1, r.id, 200, {}, TRUE)
                  ELSE /\ db' = db
                       /\ seq' = seq
                       /\ http' = Response(r.n, "auth", 0, r.id, 500, {}, TRUE)
           /\ reqs' = reqs \ {r}
    /\ UNCHANGED <<callVars, streamVars, cacheVars>>

AuthInit == CacheInit

AuthNext ==
    \/ GetCurrentUserRead
    \/ GetCurrentUserCreate

AuthSpec == AuthInit /\ [][AuthNext]_vars

\* a uid has at most one User row, and the uid of a request that was let
\* in has one
OneUserPerUid ==
    /\ \A a \in db.users, b \in db.users : a.open_id = b.open_id => a = b
    /\ (http.route = "auth" /\ http.status = 200) => UserOf(db.users, http.id) # {}

\* a token that is not verified or has no uid is answered 401 and adds no row
RejectedAddsNoUser ==
    (http'.n # http.n /\ http'.route = "auth" /\ (~http'.flag \/ http'.id = 0)) =>
        (http'.status = 401 /\ db' = db)

\* C28: after any requests, concurrent first requests of a uid included,
\* every uid that has authenticated has exactly one User row, and a request
\* with an invalid token or a token without uid gets 401 and adds no User row.
C28_OneUserPerUid == []OneUserPerUid /\ [][RejectedAddsNoUser]_vars

=============================================================================
